---------------------------- MODULE Spec2Model ----------------------------
(***************************************************************************)
(* A model of the daylight alarm's transition and pacing code:             *)
(*   - ledstrip.py: dither_fade and sunrise_animation                      *)
(*   - led_animations.py: Frame, Animation.play, DitherFade, LerpFade,     *)
(*     DitherLerpFade                                                      *)
(*   - ws_stub.py: Color and PixelStrip                                    *)
(*                                                                         *)
(* Time is measured in milliseconds.  Durations that the code obtains by   *)
(* float division are kept as exact fractions <<numerator, denominator>>.  *)
(* random.shuffle followed by pop() is the choice of any element that is   *)
(* still pending, so a shuffled list is kept as the set of its elements.   *)
(***************************************************************************)
EXTENDS Integers, Sequences, FiniteSets, TLC

(***************************************************************************)
(* Bounds of the model.                                                    *)
(***************************************************************************)
\* largest strip of the transition specification
MaxPixels == 4
\* largest dither_time given to a stand-alone dither_fade call, in ms
MaxDitherMs == 25
\* largest cost of rendering one batch or one frame, in ms
MaxCost == 2
\* largest batch_size of a DitherFade or DitherLerpFade
MaxBatch == 3
\* largest steps of a LerpFade
MaxSteps == 10
\* largest steps of a DitherLerpFade
MaxDitherLerpSteps == 2
\* outer iterations of a DitherLerpFade followed past its steps
MaxOvershoot == 1
\* largest delay given to Animation.play, in ms
MaxDelay == 2
\* largest strip of the sunrise specification
MaxSunPixels == 3
\* largest total_time given to sunrise_animation, in seconds
MaxSunSeconds == 8
\* LEDs of a position table
MaxLeds == 4
\* largest coordinate of a LED on the grid
MaxCoord == 2
\* largest width and height of an image
MaxSide == 2
\* LEDs of light_coordinates.csv in the display_image specification
MaxDispLeds == 2
\* largest coordinate of a LED in the display_image specification
MaxDispCoord == 1
\* pixels of an image in the display_image specification
MaxDispPixels == 2

\* the strip of the flask_time specification
MaxAppPixels == 2

\* jobs the scheduler thread starts
MaxJobs == 2
\* restarts of flask_time.py that are followed
MaxRestarts == 1
\* largest strip of the specification of single calls
MaxStripPixels == 2
\* largest strip of the specification of the sunrise band
MaxBandPixels == 10
\* largest strip of the specification of blend_image_to_strip
MaxBlendPixels == 3
\* passes of the loop of blend_image_to_strip that are followed
MaxBlendSteps == 2
\* for statements run over one animation object
MaxPasses == 2
\* largest max_iterations of a TheatreChase
MaxIterations == 3

(***************************************************************************)
(* Program constants.                                                      *)
(***************************************************************************)
\* min_update_time = 0.005 seconds
MinUpdateMs == 5
\* steps = 256 in sunrise_animation
SunriseSteps == 256
\* bits of a packed colour: white << 24 with white up to 255
WordBits == 32
\* NUM_STEPS = 256 in blend_image_to_strip
NumSteps == 256

(***************************************************************************)
(* Exact fractions.                                                        *)
(***************************************************************************)
Abs(n) == IF n < 0 THEN -n ELSE n

Min(a, b) == IF a < b THEN a ELSE b

RECURSIVE Gcd(_, _)
Gcd(a, b) == IF b = 0 THEN a ELSE Gcd(b, a % b)

Lcm(a, b) == (a \div Gcd(a, b)) * b

\* the fraction n/d (d > 0) in lowest terms
Rat(n, d) == LET g == Gcd(Abs(n), d) IN <<n \div g, d \div g>>

RInt(n) == <<n, 1>>

RAdd(x, y) ==
    LET l == Lcm(x[2], y[2])
    IN Rat(x[1] * (l \div x[2]) + y[1] * (l \div y[2]), l)

RSub(x, y) == RAdd(x, <<-y[1], y[2]>>)

RLt(x, y) ==
    LET l == Lcm(x[2], y[2])
    IN x[1] * (l \div x[2]) < y[1] * (l \div y[2])

RLe(x, y) == ~RLt(y, x)

\* x / k and x * k for an integer k > 0
RDiv(x, k) == Rat(x[1], x[2] * k)

RMul(x, k) == Rat(x[1] * k, x[2])

\* Python's round(): to the nearest integer, a tie to the even one
Round(x) ==
    LET q == x[1] \div x[2]
        r == x[1] % x[2]
    IN IF 2 * r < x[2] THEN q
       ELSE IF 2 * r > x[2] THEN q + 1
       ELSE IF q % 2 = 0 THEN q ELSE q + 1

\* int() and astype(int): truncation toward zero
Trunc(x) == IF x[1] >= 0 THEN x[1] \div x[2] ELSE -((-x[1]) \div x[2])

\* ceil(a / b) for a >= 0, b > 0
Ceil(a, b) == (a + b - 1) \div b

Pixels(n) == 0 .. (n - 1)

(***************************************************************************)
(* State.                                                                  *)
(***************************************************************************)
VARIABLES
    \* ws_stub.PixelStrip
    numPixels,        \* strip.numPixels()
    data,             \* PixelStrip._data
    now,              \* time.time(), a fraction of ms
    \* ledstrip.dither_fade
    dfPc,             \* "idle", "entry", "loop", "done", "error"
    new_color,
    leds_to_switch,
    dither_time,
    start_time,
    num_leds,
    df_batch_size,
    dfSleep,          \* argument of the time.sleep of line 87
    dfFlushes,        \* strip.show() calls of this call
    dfFinalSleep,     \* argument of the time.sleep of line 96, 0 if skipped
    dfPending0,       \* leds_to_switch at entry
    dfWrites,         \* setPixelColor calls of this call, per index
    \* led_animations.Animation and its subclasses
    anKind,           \* "none", "DitherFade", "LerpFade", "DitherLerpFade"
    anPc,             \* "idle", "new", "fetch", "frame", "done", "aborted"
    frame_number,
    batch_size,
    steps,
    old_frame,        \* colors of old_frame
    new_frame,        \* colors of new_frame
    current_frame,    \* colors of self.current_frame
    next_frame,       \* colors of self.next_frame
    remaining_pixels,
    lerp_step,
    delta,
    anWrites,         \* assignments to current_frame.colors[idx], per index
    \* the loop that consumes the animation: a bare for loop or Animation.play
    driver,           \* "iter", "play"
    frame,            \* colors of the frame the loop holds
    delay,
    dt,
    playSleep,        \* argument of the time.sleep of line 88
    shown,            \* frames shown by play
    \* ledstrip.sunrise_animation
    sunPc,            \* "idle", "loop", "dither", "done", "error"
    step,
    reverse,
    total_time,       \* in seconds
    t_1,
    sunStart,         \* time.time() when sunrise_animation was entered
    sunCost,          \* cost of rendering one batch during this run, in ms
    \* light_array.LightArray, lightarray.LightArray
    position_data,    \* the position table the LightArray is built from
    image,            \* the image: width, height and getdata()
    imPc,             \* "idle", "call", "done", "ValueError"
    regions,          \* regions, line 91
    ret_colors,       \* the array returned, line 98
    \* display_image of light_array.py and of lightarray.py
    lightModule,      \* "light_array" or "lightarray": whose display_image
    light_pos,        \* light_coordinates.csv: <<X, Y>> of each LED
    files,            \* the image files, by name
    pkl,              \* the files of ./pkl/, by image name
    dispPc,           \* "idle", "call", "blend", "animation" or the exception
    image_filename,
    la,               \* the LightArray in use: kdtree data and colors
    found,            \* what line 180 found: "none", "absent", "corrupt", "entry"
    clusterings,      \* runs of image_to_colors during this call
    \* flask_time.py: the check_schedule thread and the change_time handler
    jobs,             \* schedule.jobs, a list: what is run, and at what time
                      \* of day, in seconds
    times_txt,        \* the two lines of ./times.txt, each the six digits of
                      \* HH:MM:SS
    schedPc,          \* "sleep", "weather", "dispatch", "animation", "black",
                      \* "show", "error"
    job,              \* the job being run: "none", "on", "off"
    weather,          \* what get_weather returned; "None" is None
    animation,        \* the function WEATHER_ANIMATIONS[weather] gave
    offI,             \* i of the loop of lines 97-98
    jobsRun,          \* jobs started so far
    webPc,            \* change_time: "idle", "file", "schedule", "black", "show"
    on_time,
    off_time,
    webI,             \* i of the loop of lines 130-131
    \* single calls of ws_stub.Color, PixelStrip.setPixelColor, Frame, Frame.show
    call,             \* the call made last: "none", "Color", "setPixelColor",
                      \* "Frame", "show"
    args,             \* its arguments
    raised,           \* the exception it raised, or "none"
    ret,              \* the value it returned, <<>> if none
    before,           \* PixelStrip._data when it was made
    frame_colors,     \* Frame.colors of the frame built last
    events,           \* the strip calls made by the call, in order
    \* led_animations.ColorWipe, TheatreChase, and a second iteration
    anColor,          \* self.color
    max_iterations,
    passFrames,       \* frames yielded by each pass that has ended
    \* LightArray.blend_image_to_strip
    blPc,             \* "idle", "loop", "dither", "done" or the exception
    blStep,           \* passes of the loop over steps that have ended
    ids,              \* the id table: the pixel of each row of colors
    color_arr,
    runtime,          \* in seconds
    blReverse,        \* reverse
    \* the process of flask_time.py and the strip it drives
    form,             \* hours.data and minutes.data of the form validated last
    restarts,         \* times the program was started again
    unshown           \* a pixel of _data was set since the last strip.show()

stripVars == <<numPixels, data, now>>

dfVars == <<dfPc, new_color, leds_to_switch, dither_time, start_time, num_leds,
            df_batch_size, dfSleep, dfFlushes, dfFinalSleep, dfPending0, dfWrites>>

anVars == <<anKind, anPc, frame_number, batch_size, steps, old_frame, new_frame,
            current_frame, next_frame, remaining_pixels, lerp_step, delta,
            anWrites>>

playVars == <<driver, frame, delay, dt, playSleep, shown>>

sunVars == <<sunPc, step, reverse, total_time, t_1, sunStart, sunCost>>

imgVars == <<position_data, image, imPc, regions, ret_colors>>

dispVars == <<lightModule, light_pos, files, pkl, dispPc, image_filename, la,
              found, clusterings>>

appVars == <<jobs, times_txt, schedPc, job, weather, animation, offI, jobsRun,
             webPc, on_time, off_time, webI>>

callVars == <<call, args, raised, ret, before, frame_colors, events>>

\* the variables of the specifications of single calls and of replays
replayVars == <<anColor, max_iterations, passFrames>>

blendVars == <<blPc, blStep, ids, color_arr, runtime, blReverse>>

procVars == <<form, restarts, unshown>>

extVars == <<callVars, replayVars, blendVars, procVars>>

vars == <<stripVars, dfVars, anVars, playVars, sunVars, imgVars, dispVars,
          appVars, extVars>>

(***************************************************************************)
(* ws_stub.Color                                                           *)
(***************************************************************************)
Color(red, green, blue) == red * 65536 + green * 256 + blue

(***************************************************************************)
(* ledstrip.dither_fade                                                    *)
(***************************************************************************)
\* line 76
SwitchesInTime(T) == Round(RDiv(T, MinUpdateMs))

\* line 77, for switches_in_time # 0
FirstBatchSize(n, s) == Round(RAdd(Rat(n, s), <<1, 2>>))

\* line 79, for batch_size # 0
NumBatches(n, b) == Round(Rat(n, b))

\* lines 76-80 raise ZeroDivisionError
BatchSizeRaises(n, T) ==
    LET s == SwitchesInTime(T)
    IN \/ s = 0
       \/ /\ s > 0
          /\ LET b == FirstBatchSize(n, s)
             IN b # 1 /\ (b = 0 \/ NumBatches(n, b) = 0)

\* lines 76-80, the batch size when nothing is raised
BatchSize(n, T) ==
    LET s == SwitchesInTime(T)
        b == FirstBatchSize(n, s)
    IN IF b = 1 THEN 1 ELSE Round(Rat(n, NumBatches(n, b)))

\* line 84: pop batch_size leds while any is left; taken are the leds popped,
\* rest is what stays in leds_to_switch
PopBatchesSkipping(pending, b) ==
    { [taken |-> S, rest |-> pending \ (S \cup X)] :
        <<S, X>> \in { <<S, X>> \in (SUBSET pending) \X (SUBSET pending) :
                         /\ Cardinality(S) = Min(b, Cardinality(pending))
                         /\ X \cap S = {}
                         /\ Cardinality(X) = Min(1, Cardinality(pending \ S)) } }

PopBatches(pending, b) ==
    { [taken |-> S, rest |-> pending \ S] :
        S \in { S \in SUBSET pending :
                  Cardinality(S) = Min(b, Cardinality(pending)) } }

\* lines 93-96: the sleep that fills the budget
FinalSleepNone(start, end, T) == <<0, 1>>

FinalSleep(start, end, T) ==
    LET time_diff == RSub(end, start)
    IN IF RLt(time_diff, T) THEN RSub(T, time_diff) ELSE <<0, 1>>

\* what rendering one batch may cost: anything up to MaxCost, and one cost
\* for a whole run of sunrise_animation
RenderCosts == IF sunPc = "idle" THEN 0 .. MaxCost ELSE {sunCost}

\* lines 66-80
DfEnter ==
    /\ dfPc = "entry"
    /\ start_time' = now
    /\ num_leds' = Cardinality(leds_to_switch)
    /\ IF BatchSizeRaises(numPixels, dither_time)
       THEN /\ dfPc' = "error"
            /\ UNCHANGED df_batch_size
       ELSE /\ dfPc' = "loop"
            /\ df_batch_size' = BatchSize(numPixels, dither_time)
    /\ UNCHANGED <<stripVars, new_color, leds_to_switch, dither_time, dfSleep,
                   dfFlushes, dfFinalSleep, dfPending0, dfWrites>>
    /\ UNCHANGED <<anVars, playVars, sunVars>>
    /\ UNCHANGED <<imgVars, dispVars, appVars>>
    /\ UNCHANGED extVars

\* lines 83-88, one iteration of the while loop
DfBatch ==
    /\ dfPc = "loop"
    /\ leds_to_switch # {}
    /\ \E p \in PopBatches(leds_to_switch, df_batch_size), cost \in RenderCosts :
         LET sleep == RDiv(dither_time, df_batch_size * num_leds)
         IN /\ leds_to_switch' = p.rest
            /\ data' = [i \in DOMAIN data |->
                          IF i \in p.taken THEN new_color ELSE data[i]]
            /\ dfWrites' = [i \in DOMAIN dfWrites |->
                              IF i \in p.taken THEN dfWrites[i] + 1 ELSE dfWrites[i]]
            /\ dfSleep' = sleep
            /\ now' = RAdd(RAdd(now, sleep), RInt(cost))
    /\ dfFlushes' = dfFlushes + 1
    /\ UNCHANGED <<numPixels, dfPc, new_color, dither_time, start_time, num_leds,
                   df_batch_size, dfFinalSleep, dfPending0>>
    /\ UNCHANGED <<anVars, playVars, sunVars>>
    /\ UNCHANGED <<imgVars, dispVars, appVars>>
    /\ unshown' = FALSE
    /\ UNCHANGED <<callVars, replayVars, blendVars, form, restarts>>

\* lines 93-96
DfExit ==
    /\ dfPc = "loop"
    /\ leds_to_switch = {}
    /\ dfFinalSleep' = FinalSleep(start_time, now, dither_time)
    /\ now' = RAdd(now, dfFinalSleep')
    /\ dfPc' = "done"
    /\ UNCHANGED <<numPixels, data, new_color, leds_to_switch, dither_time,
                   start_time, num_leds, df_batch_size, dfSleep, dfFlushes,
                   dfPending0, dfWrites>>
    /\ UNCHANGED <<anVars, playVars, sunVars>>
    /\ UNCHANGED <<imgVars, dispVars, appVars>>
    /\ UNCHANGED extVars

NextDitherFn == DfEnter \/ DfBatch \/ DfExit

(***************************************************************************)
(* led_animations.Frame                                                    *)
(***************************************************************************)
Black == Color(0, 0, 0)

White == Color(255, 255, 255)

\* lines 47-50: one colour repeated along the strip
FrameOf(n, c) == [i \in Pixels(n) |-> c]

\* lines 52-56, the strip's data after show()
Show(colors, d) ==
    LET len == Cardinality(DOMAIN colors)
    IN [i \in DOMAIN d |-> IF i < len THEN colors[i % len] ELSE d[i]]

\* the channels of a packed colour
Red(c) == (c \div 65536) % 256

Green(c) == (c \div 256) % 256

Blue(c) == c % 256

(***************************************************************************)
(* led_animations.Animation                                                *)
(***************************************************************************)
\* lines 64-66, called by the for statement
AnimIter ==
    /\ anPc = "new"
    /\ frame_number' = 0
    /\ anPc' = "fetch"
    /\ UNCHANGED <<stripVars, dfVars, playVars, sunVars, anKind, batch_size, steps,
                   old_frame, new_frame, current_frame, next_frame,
                   remaining_pixels, lerp_step, delta, anWrites>>
    /\ UNCHANGED <<imgVars, dispVars, appVars>>
    /\ UNCHANGED extVars

(***************************************************************************)
(* led_animations.DitherFade                                               *)
(***************************************************************************)
\* line 202
ExhaustedEarly(remaining) == Cardinality(remaining) <= 1

Exhausted(remaining) == remaining = {}

\* line 194: current_frame is a deep copy of old_frame, so what line 210
\* assigns to current_frame.colors does not reach the frame of the caller
CallersFrameShared(old, current) == current

CallersFrame(old, current) == old

\* lines 201-212
DitherFadeNext ==
    /\ anKind = "DitherFade"
    /\ anPc = "fetch"
    /\ IF Exhausted(remaining_pixels)
       THEN /\ anPc' = "done"
            /\ UNCHANGED <<frame_number, current_frame, remaining_pixels,
                           anWrites, frame>>
       ELSE \E p \in PopBatches(remaining_pixels, batch_size) :
              /\ remaining_pixels' = p.rest
              /\ current_frame' = [i \in DOMAIN current_frame |->
                                     IF i \in p.taken THEN new_frame[i]
                                                      ELSE current_frame[i]]
              /\ anWrites' = [i \in DOMAIN anWrites |->
                                IF i \in p.taken THEN anWrites[i] + 1
                                                 ELSE anWrites[i]]
              /\ frame_number' = frame_number + 1
              /\ frame' = current_frame'
              /\ anPc' = "frame"
    /\ old_frame' = CallersFrame(old_frame, current_frame')
    /\ UNCHANGED <<stripVars, dfVars, sunVars, anKind, batch_size, steps,
                   new_frame, next_frame, lerp_step, delta, driver, delay, dt,
                   playSleep, shown>>
    /\ UNCHANGED <<imgVars, dispVars, appVars>>
    /\ UNCHANGED extVars

(***************************************************************************)
(* led_animations.LerpFade                                                 *)
(***************************************************************************)
\* line 226: (new_frame.colors - old_frame.colors).astype(float) / steps
Delta(old, new, n) == [i \in DOMAIN old |-> Rat(new[i] - old[i], n)]

\* lines 233-235 and 288: old.colors + (delta * k).astype(int)
Lerp(old, d, k) == [i \in DOMAIN old |-> old[i] + Trunc(RMul(d[i], k))]

\* lines 229-237
LerpFadeNext ==
    /\ anKind = "LerpFade"
    /\ anPc = "fetch"
    /\ IF frame_number >= steps
       THEN /\ anPc' = "done"
            /\ UNCHANGED <<frame_number, frame>>
       ELSE /\ frame' = Lerp(old_frame, delta, frame_number)
            /\ frame_number' = frame_number + 1
            /\ anPc' = "frame"
    /\ UNCHANGED <<stripVars, dfVars, sunVars, anKind, batch_size, steps, old_frame,
                   new_frame, current_frame, next_frame, remaining_pixels,
                   lerp_step, delta, anWrites, driver, delay, dt, playSleep,
                   shown>>
    /\ UNCHANGED <<imgVars, dispVars, appVars>>
    /\ UNCHANGED extVars

(***************************************************************************)
(* led_animations.DitherLerpFade                                           *)
(***************************************************************************)
\* lines 291-304; the model follows lerp_step up to steps + MaxOvershoot
DitherLerpFadeNext ==
    /\ anKind = "DitherLerpFade"
    /\ anPc = "fetch"
    /\ remaining_pixels = {} => lerp_step < steps + MaxOvershoot
    /\ LET refill == remaining_pixels = {}
           cur == IF refill THEN next_frame ELSE current_frame
           nxt == IF refill THEN Lerp(old_frame, delta, lerp_step + 1)
                            ELSE next_frame
           rem == IF refill THEN Pixels(numPixels) ELSE remaining_pixels
       IN /\ lerp_step' = IF refill THEN lerp_step + 1 ELSE lerp_step
          /\ next_frame' = nxt
          /\ \E p \in PopBatches(rem, batch_size) :
               /\ remaining_pixels' = p.rest
               /\ current_frame' = [i \in DOMAIN cur |->
                                      IF i \in p.taken THEN nxt[i] ELSE cur[i]]
               /\ anWrites' = [i \in DOMAIN anWrites |->
                                 IF i \in p.taken THEN anWrites[i] + 1
                                                  ELSE anWrites[i]]
    /\ frame_number' = frame_number + 1
    /\ frame' = current_frame'
    /\ anPc' = "frame"
    /\ UNCHANGED <<stripVars, dfVars, sunVars, anKind, batch_size, steps, old_frame,
                   new_frame, delta, driver, delay, dt, playSleep, shown>>
    /\ UNCHANGED <<imgVars, dispVars, appVars>>
    /\ UNCHANGED extVars

(***************************************************************************)
(* The loops that consume an animation                                     *)
(***************************************************************************)
\* a for loop over the animation with an empty body
IterBody ==
    /\ driver = "iter"
    /\ anPc = "frame"
    /\ anPc' = "fetch"
    /\ UNCHANGED <<stripVars, dfVars, playVars, sunVars, anKind, frame_number, batch_size,
                   steps, old_frame, new_frame, current_frame, next_frame,
                   remaining_pixels, lerp_step, delta, anWrites>>
    /\ UNCHANGED <<imgVars, dispVars, appVars>>
    /\ UNCHANGED extVars

\* Animation.play, lines 84-89: the body of its for loop.  dt is the time
\* since the last iteration ended: fetching the frame and showing it.  A
\* negative argument makes time.sleep raise ValueError, which leaves play.
PlayBody ==
    /\ driver = "play"
    /\ anPc = "frame"
    /\ data' = Show(frame, data)
    /\ shown' = shown + 1
    /\ \E cost \in 0 .. MaxCost :
         /\ dt' = cost
         /\ playSleep' = delay - cost
         /\ anPc' = IF delay - cost < 0 THEN "aborted" ELSE "fetch"
    /\ UNCHANGED <<numPixels, now, dfVars, sunVars, anKind, frame_number, batch_size,
                   steps, old_frame, new_frame, current_frame, next_frame,
                   remaining_pixels, lerp_step, delta, anWrites, driver, frame,
                   delay>>
    /\ UNCHANGED <<imgVars, dispVars, appVars>>
    /\ unshown' = FALSE
    /\ UNCHANGED <<callVars, replayVars, blendVars, form, restarts>>

\* lines 212 and 304 return self.current_frame itself, not a copy.  The frame
\* objects an animation holds in current_frame are numbered here: DitherFade
\* keeps the deep copy of line 194 for life (number 0); DitherLerpFade starts
\* with the deep copy of line 260 and, each time its queue is refilled, rebinds
\* current_frame to the Frame built by get_next_lerp_frame (lines 293-294), so
\* that it holds the frame built for lerp_step - 1
CurrentFrameObject == IF anKind = "DitherLerpFade" THEN lerp_step - 1 ELSE 0

NextAnim ==
    \/ AnimIter
    \/ DitherFadeNext
    \/ LerpFadeNext
    \/ DitherLerpFadeNext
    \/ IterBody
    \/ PlayBody

(***************************************************************************)
(* ledstrip.sunrise_animation                                              *)
(***************************************************************************)
Max(a, b) == IF a < b THEN b ELSE a

\* lines 105-107
Frac(k, rev) == IF rev THEN Rat(SunriseSteps - k, SunriseSteps)
                       ELSE Rat(k, SunriseSteps)

\* max(int(c * frac), 1)
Channel(c, frac) == Max(Trunc(RMul(frac, c)), 1)

\* lines 108-110
SkyBlue(frac) == Color(Channel(135, frac), Channel(206, frac), Channel(235, frac))

\* lines 111-113
Sunrise(frac) == Color(Channel(255, frac), Channel(191, frac), Channel(39, frac))

\* lines 114-116: range(sunrise_start, sunrise_end)
SunriseBand(n, frac) ==
    LET sunrise_width == n \div 10
        sunrise_start == Trunc(RMul(frac, n))
    IN sunrise_start .. (sunrise_start + sunrise_width - 1)

\* line 102, in ms: total_time - total_time / 2
BrighteningTime(T) == RSub(RInt(1000 * T), RDiv(RInt(1000 * T), 2))

\* lines 126-127: the sleep that fills the step
StepSleep(diff, T) ==
    LET per_step == RDiv(BrighteningTime(T), SunriseSteps)
    IN IF RLt(diff, per_step) THEN RSub(per_step, diff) ELSE <<0, 1>>

\* lines 104-123, one iteration of the loop up to the call of dither_fade.
\* setPixelColor on an index past the strip raises IndexError (ws_stub.py
\* line 75), after the pixels before it were set.
SunStep ==
    /\ sunPc = "loop"
    /\ LET frac == Frac(step, reverse)
           band == SunriseBand(numPixels, frac)
       IN /\ data' = [i \in DOMAIN data |->
                        IF i \in band THEN Sunrise(frac) ELSE data[i]]
          /\ IF band \subseteq Pixels(numPixels)
             THEN /\ sunPc' = "dither"
                  /\ t_1' = now
                  /\ dfPc' = "entry"
                  /\ new_color' = SkyBlue(frac)
                  /\ leds_to_switch' = Pixels(numPixels) \ band
                  /\ dfPending0' = Pixels(numPixels) \ band
                  /\ dither_time' = RDiv(RSub(BrighteningTime(total_time),
                                              RInt(1000)), SunriseSteps)
                  /\ dfWrites' = [i \in Pixels(numPixels) |-> 0]
                  /\ dfFlushes' = 0
             ELSE /\ sunPc' = "error"
                  /\ UNCHANGED <<t_1, dfPc, new_color, leds_to_switch, dfPending0,
                                 dither_time, dfWrites, dfFlushes>>
    /\ UNCHANGED <<numPixels, now, start_time, num_leds, df_batch_size, dfSleep,
                   dfFinalSleep, anVars, playVars, step, reverse, total_time,
                   sunStart, sunCost>>
    /\ UNCHANGED <<imgVars, dispVars, appVars>>
    /\ unshown' = (unshown \/ SunriseBand(numPixels, Frac(step, reverse))
                                \cap Pixels(numPixels) # {})
    /\ UNCHANGED <<callVars, replayVars, blendVars, form, restarts>>

\* lines 124-127, after dither_fade returned
SunAfterDither ==
    /\ sunPc = "dither"
    /\ dfPc = "done"
    /\ now' = RAdd(now, StepSleep(RSub(now, t_1), total_time))
    /\ step' = step + 1
    /\ sunPc' = IF step + 1 = SunriseSteps THEN "done" ELSE "loop"
    /\ dfPc' = "idle"
    /\ UNCHANGED <<numPixels, data, new_color, leds_to_switch, dither_time,
                   start_time, num_leds, df_batch_size, dfSleep, dfFlushes,
                   dfFinalSleep, dfPending0, dfWrites, anVars, playVars, reverse,
                   total_time, t_1, sunStart, sunCost>>
    /\ UNCHANGED <<imgVars, dispVars, appVars>>
    /\ UNCHANGED extVars

\* dither_fade raised: the exception leaves sunrise_animation
SunDitherRaised ==
    /\ sunPc = "dither"
    /\ dfPc = "error"
    /\ sunPc' = "error"
    /\ dfPc' = "idle"
    /\ UNCHANGED <<stripVars, new_color, leds_to_switch, dither_time, start_time,
                   num_leds, df_batch_size, dfSleep, dfFlushes, dfFinalSleep,
                   dfPending0, dfWrites, anVars, playVars, step, reverse,
                   total_time, t_1, sunStart, sunCost>>
    /\ UNCHANGED <<imgVars, dispVars, appVars>>
    /\ UNCHANGED extVars

NextSunrise == SunStep \/ SunAfterDither \/ SunDitherRaised \/ NextDitherFn

\* the LED tables of the display_image specification
DispTables ==
    { pos \in UNION { [0 .. (n - 1) ->
                         (0 .. MaxDispCoord) \X (0 .. MaxDispCoord)] :
                        n \in 1 .. MaxDispLeds } :
        /\ \A m, n \in DOMAIN pos : pos[m] = pos[n] => m = n
        /\ \E n \in DOMAIN pos : pos[n][1] > 0
        /\ \E n \in DOMAIN pos : pos[n][2] > 0 }

(***************************************************************************)
(* light_array.LightArray._image_to_colors (the same text as               *)
(* lightarray.LightArray.image_to_colors).  LEDs, list positions and pixel *)
(* coordinates count from 0; a colour sample is <<red, green, blue>>.      *)
(***************************************************************************)
MaxOf(S) == CHOOSE m \in S : \A x \in S : x <= m

MinOf(S) == CHOOSE m \in S : \A x \in S : m <= x

\* column k of a position table
Column(pos, k) == { pos[n][k] : n \in DOMAIN pos }

\* lines 84-90: the i-th position queried is that of pixel (x, y), where x
\* runs in the outer loop and y in the inner one
PositionPixel(i, H) == <<i \div H, i % H>>

\* line 92: getdata() flattens the image row by row, so the i-th sample is
\* the colour of pixel (x, y) with i = y * W + x
SamplePixel(i, W) == <<i % W, i \div W>>

\* the squared distance from LED n, at its position divided by the column
\* maxima (light_array.py 59-60, lightarray.py 193-194), to the query
\* (x / W, y / H), times (W * H * mx * my)^2
Dist2(pos, n, x, y, W, H) ==
    LET mx == MaxOf(Column(pos, 1))
        my == MaxOf(Column(pos, 2))
        dx == (x * mx - pos[n][1] * W) * H * my
        dy == (y * my - pos[n][2] * H) * W * mx
    IN dx * dx + dy * dy

\* line 91: kdtree.query answers the nearest LED; between LEDs at the same
\* distance the answer is whichever the tree meets first
Nearest(pos, x, y, W, H) ==
    { n \in DOMAIN pos :
        \A m \in DOMAIN pos : Dist2(pos, n, x, y, W, H) <= Dist2(pos, m, x, y, W, H) }

RECURSIVE Query(_, _, _, _)
\* line 91: the answers for the first k positions, as a sequence
Query(pos, W, H, k) ==
    IF k = 0 THEN {<<>>}
    ELSE LET p == PositionPixel(k - 1, H)
         IN { Append(r, n) : r \in Query(pos, W, H, k - 1),
                             n \in Nearest(pos, p[1], p[2], W, H) }

\* line 91: what regions may be, regions[i] for the i-th position
Regions(pos, W, H) ==
    { [i \in 0 .. (W * H - 1) |-> r[i + 1]] : r \in Query(pos, W, H, W * H) }

\* line 95: the list indices selected by regions == region
InRegion(reg, region) == { i \in DOMAIN reg : reg[i] = region }

RECURSIVE SumOver(_, _, _)
\* the sum of channel c over the samples color_data[i], i in S
SumOver(color_data, S, c) ==
    IF S = {} THEN 0
    ELSE LET i == CHOOSE j \in S : TRUE
         IN color_data[i][c] + SumOver(color_data, S \ {i}, c)

\* line 96: the centre of the single cluster is the mean of the samples
Centre(color_data, S) ==
    [c \in 1 .. 3 |-> Rat(SumOver(color_data, S, c), Cardinality(S))]

\* line 97: int(item) for each channel of the centre
RegionColor(color_data, S) == [c \in 1 .. 3 |-> Trunc(Centre(color_data, S)[c])]

\* line 94: range(min(regions), max(regions))
LoopRegions(reg) ==
    LET used == { reg[i] : i \in DOMAIN reg }
    IN MinOf(used) .. (MaxOf(used) - 1)

\* line 96: KMeans.fit raises ValueError when given no sample
FitRaises(reg) == \E region \in LoopRegions(reg) : InRegion(reg, region) = {}

\* lines 93-98, when nothing is raised
RetColors(pos, color_data, reg) ==
    [n \in DOMAIN pos |->
        IF n \in LoopRegions(reg) THEN RegionColor(color_data, InRegion(reg, n))
                                  ELSE <<0, 0, 0>>]

\* lines 84-98: the outcomes of one call
ImageToColors(pos, im) ==
    { [status |-> IF FitRaises(reg) THEN "ValueError" ELSE "done",
       regions |-> reg,
       colors |-> IF FitRaises(reg) THEN <<>> ELSE RetColors(pos, im.data, reg)] :
        reg \in Regions(pos, im.width, im.height) }

\* LightArray(position_data) and image_to_colors(image)
ImageToColorsCall ==
    /\ imPc = "call"
    /\ \E out \in ImageToColors(position_data, image) :
         /\ regions' = out.regions
         /\ ret_colors' = out.colors
         /\ imPc' = out.status
    /\ UNCHANGED <<position_data, image>>
    /\ UNCHANGED <<stripVars, dfVars, anVars, playVars, sunVars, dispVars,
                   appVars>>
    /\ UNCHANGED extVars

NextImage == ImageToColorsCall

(***************************************************************************)
(* display_image of light_array.py (lines 158-198) and of lightarray.py    *)
(* (lines 165-204); line numbers are those of light_array.py unless said.  *)
(***************************************************************************)
\* no LightArray in use
NoLightArray == [kdtree |-> <<>>, colors |-> <<>>]

\* no file in ./pkl/ under this name
NoPickle == [state |-> "absent", kdtree |-> <<>>, colors |-> <<>>]

\* lines 185-190: the table handed to LightArray has the columns Y, X
LightArr(lp) == [n \in DOMAIN lp |-> <<lp[n][2], lp[n][1]>>]

\* a pickled LightArray
Pickled(obj) == [state |-> "entry", kdtree |-> obj.kdtree, colors |-> obj.colors]

\* control is inside display_image
InDisplayImage == dispPc \in {"call", "blend"}

\* lines 177-180: entry
DispCall ==
    /\ ~InDisplayImage
    /\ \E f \in DOMAIN files : image_filename' = f
    /\ dispPc' = "call"
    /\ la' = NoLightArray
    /\ found' = "none"
    /\ clusterings' = 0
    /\ UNCHANGED <<lightModule, light_pos, files, pkl>>
    /\ UNCHANGED <<stripVars, dfVars, anVars, playVars, sunVars, imgVars,
                   appVars>>
    /\ UNCHANGED extVars

\* lines 180-183: the pickle exists and is loaded; pkl.load raises on a file
\* it cannot deserialise, and nothing catches it
DispLoad ==
    /\ dispPc = "call"
    /\ pkl[image_filename].state # "absent"
    /\ found' = pkl[image_filename].state
    /\ IF pkl[image_filename].state = "corrupt"
       THEN /\ dispPc' = "UnpicklingError"
            /\ UNCHANGED la
       ELSE /\ dispPc' = "blend"
            /\ la' = [kdtree |-> pkl[image_filename].kdtree,
                      colors |-> pkl[image_filename].colors]
    /\ UNCHANGED <<lightModule, light_pos, files, pkl, image_filename,
                   clusterings>>
    /\ UNCHANGED <<stripVars, dfVars, anVars, playVars, sunVars, imgVars,
                   appVars>>
    /\ UNCHANGED extVars

\* lines 184-194: no pickle; a LightArray is built and dumped.  In
\* light_array.py the constructor computes the colours (line 67); in
\* lightarray.py it builds the tree only (lines 48-51)
DispBuild ==
    /\ dispPc = "call"
    /\ pkl[image_filename].state = "absent"
    /\ found' = "absent"
    /\ IF lightModule = "light_array"
       THEN \E out \in ImageToColors(LightArr(light_pos), files[image_filename]) :
              /\ clusterings' = clusterings + 1
              /\ IF out.status = "done"
                 THEN /\ la' = [kdtree |-> LightArr(light_pos),
                                colors |-> out.colors]
                      /\ pkl' = [pkl EXCEPT ![image_filename] = Pickled(la')]
                      /\ dispPc' = "blend"
                 ELSE /\ dispPc' = out.status
                      /\ UNCHANGED <<la, pkl>>
       ELSE /\ la' = [kdtree |-> LightArr(light_pos), colors |-> <<>>]
            /\ pkl' = [pkl EXCEPT ![image_filename] = Pickled(la')]
            /\ dispPc' = "blend"
            /\ UNCHANGED clusterings
    /\ UNCHANGED <<lightModule, light_pos, files, image_filename>>
    /\ UNCHANGED <<stripVars, dfVars, anVars, playVars, sunVars, imgVars,
                   appVars>>
    /\ UNCHANGED extVars

\* lines 196-198: blend_image_to_strip.  In light_array.py it works from
\* self.colors and enters the loop of lines 148-155, which is not followed
\* here.  In lightarray.py it first runs image_to_colors (line 123) and then,
\* in the first pass of its loop, reads i before any assignment (line 135)
DispBlend ==
    /\ dispPc = "blend"
    /\ IF lightModule = "light_array"
       THEN /\ dispPc' = "animation"
            /\ UNCHANGED clusterings
       ELSE \E out \in ImageToColors(la.kdtree, files[image_filename]) :
              /\ clusterings' = clusterings + 1
              /\ dispPc' = IF out.status = "done" THEN "UnboundLocalError"
                                                   ELSE out.status
    /\ UNCHANGED <<lightModule, light_pos, files, pkl, image_filename, la, found>>
    /\ UNCHANGED <<stripVars, dfVars, anVars, playVars, sunVars, imgVars,
                   appVars>>
    /\ UNCHANGED extVars

\* line 179 reads light_coordinates.csv on every call: the table may have
\* been edited since the last one
EditPositions ==
    /\ ~InDisplayImage
    /\ \E lp \in DispTables : lp # light_pos /\ light_pos' = lp
    /\ UNCHANGED <<lightModule, files, pkl, dispPc, image_filename, la, found,
                   clusterings>>
    /\ UNCHANGED <<stripVars, dfVars, anVars, playVars, sunVars, imgVars,
                   appVars>>
    /\ UNCHANGED extVars

\* line 183 reads whatever ./pkl/ holds: a file cut short or written by
\* another version cannot be deserialised
CorruptCache ==
    /\ ~InDisplayImage
    /\ \E f \in DOMAIN pkl :
         /\ pkl[f].state = "entry"
         /\ pkl' = [pkl EXCEPT ![f] = [state |-> "corrupt", kdtree |-> <<>>,
                                       colors |-> <<>>]]
    /\ UNCHANGED <<lightModule, light_pos, files, dispPc, image_filename, la,
                   found, clusterings>>
    /\ UNCHANGED <<stripVars, dfVars, anVars, playVars, sunVars, imgVars,
                   appVars>>
    /\ UNCHANGED extVars

NextDisplay ==
    \/ DispCall
    \/ DispLoad
    \/ DispBuild
    \/ DispBlend
    \/ EditPositions
    \/ CorruptCache

(***************************************************************************)
(* flask_time.py                                                           *)
(***************************************************************************)
\* line 56, RUNTIME = 20 * 60, in seconds
Runtime == 1200

\* datetime.time holds a time of day: the seconds of a day
DaySeconds == 86400

\* line 115: datetime.time(hour, minute), as seconds of the day
OnTime(hours, minutes) == 3600 * hours + 60 * minutes

\* today at on_time plus RUNTIME, read as a time of the same day
OffTimeSameDay(on) == on + Runtime

\* lines 118-121: today at on_time plus RUNTIME, of which .time() keeps the
\* time of day
OffTime(on) == (on + Runtime) % DaySeconds

\* lines 124-129: strftime("%H:%M:%S"), the two digits of the hour, of the
\* minute and of the second
Strftime(t) ==
    LET hour == t \div 3600
        minute == (t % 3600) \div 60
        second == t % 60
    IN <<hour \div 10, hour % 10, minute \div 10, minute % 10,
         second \div 10, second % 10>>

\* lines 126-129 and 149-150: every().day.at(text) reads HH:MM:SS back into
\* a time of day
At(text) ==
    3600 * (10 * text[1] + text[2]) + 60 * (10 * text[3] + text[4])
        + 10 * text[5] + text[6]

\* lines 126-129 and 149-150: the two jobs, in the order they are appended
\* to schedule.jobs
JobsAt(on, off) == <<[fn |-> "on", at |-> At(on)], [fn |-> "off", at |-> At(off)]>>

\* what get_weather returns: "None" is the None of line 81, "Clear" has an
\* entry in WEATHER_ANIMATIONS, "Mist" has none
Weathers == {"None", "Clear", "Mist"}

\* lines 32-52: a defaultdict whose default is sunrise_animation; the six
\* entries are lambdas that call display_image
WeatherAnimations(w) ==
    IF w \in {"Clear", "Rain", "Snow", "Thunderstorm", "Drizzle", "Clouds"}
    THEN "display_image"
    ELSE "sunrise_animation"

\* the parameters of led_animations.sunrise_animation (line 318) and of the
\* lambdas (lines 33-52)
Parameters(fn) ==
    IF fn = "sunrise_animation" THEN {"strip", "total_time", "reverse"}
                                ELSE {"strip", "runtime", "reverse"}

\* the keyword arguments of the call: line 89 passes runtime and reverse by
\* name, line 96 passes reverse by name and runtime by position
Keywords(j) == IF j = "on" THEN {"runtime", "reverse"} ELSE {"reverse"}

\* a call with a keyword the function does not have raises TypeError
CallRaises(fn, j) == ~(Keywords(j) \subseteq Parameters(fn))

\* every job that is due is started at once, whatever the thread is doing
AppJobStartAnyTime ==
    /\ schedPc \notin {"idle", "error"}
    /\ jobsRun < MaxJobs
    /\ \E k \in DOMAIN jobs : job' = jobs[k].fn
    /\ schedPc' = "weather"
    /\ weather' = "unset"
    /\ animation' = "none"
    /\ offI' = 0
    /\ jobsRun' = jobsRun + 1
    /\ UNCHANGED <<jobs, times_txt, webPc, on_time, off_time, webI>>
    /\ UNCHANGED <<stripVars, dfVars, anVars, playVars, sunVars, imgVars,
                   dispVars>>
    /\ UNCHANGED extVars

\* line 141: schedule.run_pending finds a job that is due.  Which job is due
\* depends on the time of day, which is not followed: any job may be
AppJobStart ==
    /\ schedPc = "sleep"
    /\ jobsRun < MaxJobs
    /\ \E k \in DOMAIN jobs : job' = jobs[k].fn
    /\ schedPc' = "weather"
    /\ weather' = "unset"
    /\ animation' = "none"
    /\ offI' = 0
    /\ jobsRun' = jobsRun + 1
    /\ UNCHANGED <<jobs, times_txt, webPc, on_time, off_time, webI>>
    /\ UNCHANGED <<stripVars, dfVars, anVars, playVars, sunVars, imgVars,
                   dispVars>>
    /\ UNCHANGED extVars

\* lines 87 and 95: get_weather, lines 63-81
AppGetWeather ==
    /\ schedPc = "weather"
    /\ \E w \in Weathers : weather' = w
    /\ schedPc' = "dispatch"
    /\ UNCHANGED <<jobs, times_txt, job, animation, offI, jobsRun, webPc,
                   on_time, off_time, webI>>
    /\ UNCHANGED <<stripVars, dfVars, anVars, playVars, sunVars, imgVars,
                   dispVars>>
    /\ UNCHANGED extVars

\* lines 89 and 96: WEATHER_ANIMATIONS[weather] is looked up and called.
\* sunrise_animation is that of led_animations.py (line 27), whose text up to
\* line 346 is that of ledstrip.sunrise_animation; the dither_fade it calls on
\* line 342 is defined nowhere but in ledstrip.py, and is taken to be that
\* one.  display_image is that of lightarray.py (line 28)
AppDispatch ==
    /\ schedPc = "dispatch"
    /\ LET fn == WeatherAnimations(weather)
       IN /\ animation' = fn
          /\ IF CallRaises(fn, job)
             THEN /\ schedPc' = "error"
                  /\ UNCHANGED <<sunVars, dispVars>>
             ELSE /\ schedPc' = "animation"
                  /\ IF fn = "sunrise_animation"
                     THEN /\ sunPc' = "loop"
                          /\ step' = 0
                          /\ reverse' = (job = "off")
                          /\ total_time' = Runtime
                          /\ sunStart' = now
                          /\ sunCost' = 0
                          /\ UNCHANGED <<t_1, dispVars>>
                     ELSE /\ dispPc' = "call"
                          /\ image_filename' = "sunrise.jpg"
                          /\ la' = NoLightArray
                          /\ found' = "none"
                          /\ clusterings' = 0
                          /\ UNCHANGED <<lightModule, light_pos, files, pkl,
                                         sunVars>>
    /\ UNCHANGED <<jobs, times_txt, job, weather, offI, jobsRun, webPc, on_time,
                   off_time, webI>>
    /\ UNCHANGED <<stripVars, dfVars, anVars, playVars, imgVars>>
    /\ UNCHANGED extVars

\* sunrise_animation returns: led_animations.py lines 347-349 first set every
\* pixel to 0 when reverse, without show.  turn_lights_on then returns (line
\* 90); turn_lights_off goes on to its loop (line 97)
AppAnimationReturns ==
    /\ schedPc = "animation"
    /\ animation = "sunrise_animation"
    /\ sunPc = "done"
    /\ data' = IF reverse THEN [i \in DOMAIN data |-> 0] ELSE data
    /\ IF job = "on"
       THEN /\ schedPc' = "sleep"
            /\ job' = "none"
       ELSE /\ schedPc' = "black"
            /\ UNCHANGED job
    /\ offI' = 0
    /\ UNCHANGED <<numPixels, now, jobs, times_txt, weather, animation, jobsRun,
                   webPc, on_time, off_time, webI>>
    /\ UNCHANGED <<dfVars, anVars, playVars, sunVars, imgVars, dispVars>>
    /\ unshown' = (unshown \/ reverse)
    /\ UNCHANGED <<callVars, replayVars, blendVars, form, restarts>>

\* the animation raised: nothing between it and the top of the thread
\* catches (lines 84-99, 139-142), so check_schedule ends
AppAnimationRaises ==
    /\ schedPc = "animation"
    /\ \/ animation = "sunrise_animation" /\ sunPc = "error"
       \/ /\ animation = "display_image"
          /\ dispPc \in {"UnpicklingError", "UnboundLocalError", "ValueError"}
    /\ schedPc' = "error"
    /\ UNCHANGED <<jobs, times_txt, job, weather, animation, offI, jobsRun,
                   webPc, on_time, off_time, webI>>
    /\ UNCHANGED <<stripVars, dfVars, anVars, playVars, sunVars, imgVars,
                   dispVars>>
    /\ UNCHANGED extVars

\* lines 97-98, one pass
AppOffBlack ==
    /\ schedPc = "black"
    /\ offI < numPixels
    /\ data' = [data EXCEPT ![offI] = Color(0, 0, 0)]
    /\ offI' = offI + 1
    /\ UNCHANGED <<numPixels, now, jobs, times_txt, schedPc, job, weather,
                   animation, jobsRun, webPc, on_time, off_time, webI>>
    /\ UNCHANGED <<dfVars, anVars, playVars, sunVars, imgVars, dispVars>>
    /\ unshown' = TRUE
    /\ UNCHANGED <<callVars, replayVars, blendVars, form, restarts>>

\* turn_lights_off returns when its animation has, without lines 97-99
AppOffReturn ==
    /\ schedPc = "black"
    /\ schedPc' = "sleep"
    /\ job' = "none"
    /\ UNCHANGED <<jobs, times_txt, weather, animation, offI, jobsRun, webPc,
                   on_time, off_time, webI>>
    /\ UNCHANGED <<stripVars, dfVars, anVars, playVars, sunVars, imgVars,
                   dispVars>>
    /\ UNCHANGED extVars

\* line 99, and turn_lights_off returns
AppOffShow ==
    /\ schedPc = "black"
    /\ offI = numPixels
    /\ schedPc' = "sleep"
    /\ job' = "none"
    /\ UNCHANGED <<jobs, times_txt, weather, animation, offI, jobsRun, webPc,
                   on_time, off_time, webI>>
    /\ UNCHANGED <<stripVars, dfVars, anVars, playVars, sunVars, imgVars,
                   dispVars>>
    /\ unshown' = FALSE
    /\ UNCHANGED <<callVars, replayVars, blendVars, form, restarts>>

\* the hours and minutes of a form that validates (timeform.py lines 19-20)
FormHours == {23}

FormMinutes == {50}

\* hours and minutes a form validates with, timeform.py lines 19-20: the
\* least and the greatest of each, and those that put the off time just
\* before, at and after midnight
Hours == {0, 7, 23}

Minutes == {0, 39, 40, 59}

\* lines 110-121: the form validates with these hours and minutes; the
\* schedule is cleared
ChangeTime(hours, minutes) ==
    /\ schedPc # "idle"
    /\ webPc = "idle"
    /\ form' = <<hours, minutes>>
    /\ on_time' = OnTime(hours, minutes)
    /\ off_time' = OffTime(OnTime(hours, minutes))
    /\ jobs' = <<>>
    /\ webPc' = "file"
    /\ UNCHANGED <<times_txt, schedPc, job, weather, animation, offI, jobsRun,
                   webI>>
    /\ UNCHANGED <<stripVars, dfVars, anVars, playVars, sunVars, imgVars,
                   dispVars>>
    /\ UNCHANGED <<callVars, replayVars, blendVars, restarts, unshown>>

\* a form is submitted while the scheduler thread is followed
WebSubmit ==
    \E hours \in FormHours, minutes \in FormMinutes : ChangeTime(hours, minutes)

\* a form is submitted, with any of these hours and minutes
WebSubmitAny ==
    \E hours \in Hours, minutes \in Minutes : ChangeTime(hours, minutes)

\* lines 123-125
WebWriteTimes ==
    /\ webPc = "file"
    /\ times_txt' = <<Strftime(on_time), Strftime(off_time)>>
    /\ webPc' = "schedule"
    /\ UNCHANGED <<jobs, schedPc, job, weather, animation, offI, jobsRun,
                   on_time, off_time, webI>>
    /\ UNCHANGED <<stripVars, dfVars, anVars, playVars, sunVars, imgVars,
                   dispVars>>
    /\ UNCHANGED extVars

\* lines 126-129
WebSchedule ==
    /\ webPc = "schedule"
    /\ jobs' = jobs \o JobsAt(Strftime(on_time), Strftime(off_time))
    /\ webPc' = "black"
    /\ webI' = 0
    /\ UNCHANGED <<times_txt, schedPc, job, weather, animation, offI, jobsRun,
                   on_time, off_time>>
    /\ UNCHANGED <<stripVars, dfVars, anVars, playVars, sunVars, imgVars,
                   dispVars>>
    /\ UNCHANGED extVars

\* lines 130-131, one pass
WebBlack ==
    /\ webPc = "black"
    /\ webI < numPixels
    /\ data' = [data EXCEPT ![webI] = Color(0, 0, 0)]
    /\ webI' = webI + 1
    /\ UNCHANGED <<numPixels, now, jobs, times_txt, schedPc, job, weather,
                   animation, offI, jobsRun, webPc, on_time, off_time>>
    /\ UNCHANGED <<dfVars, anVars, playVars, sunVars, imgVars, dispVars>>
    /\ unshown' = TRUE
    /\ UNCHANGED <<callVars, replayVars, blendVars, form, restarts>>

\* lines 132-135: show, and the handler returns
WebShow ==
    /\ webPc = "black"
    /\ webI = numPixels
    /\ webPc' = "idle"
    /\ UNCHANGED <<jobs, times_txt, schedPc, job, weather, animation, offI,
                   jobsRun, on_time, off_time, webI>>
    /\ UNCHANGED <<stripVars, dfVars, anVars, playVars, sunVars, imgVars,
                   dispVars>>
    /\ unshown' = FALSE
    /\ UNCHANGED <<callVars, replayVars, blendVars, form, restarts>>

\* the scheduler thread (line 153), the animation it is in, and the web
\* handler (line 155)
NextApp ==
    \/ AppJobStart
    \/ AppGetWeather
    \/ AppDispatch
    \/ SunStep
    \/ SunAfterDither
    \/ DfEnter
    \/ DfBatch
    \/ DfExit
    \/ DispLoad
    \/ DispBuild
    \/ DispBlend
    \/ AppAnimationReturns
    \/ AppAnimationRaises
    \/ AppOffBlack
    \/ AppOffShow
    \/ WebSubmit
    \/ WebWriteTimes
    \/ WebSchedule
    \/ WebBlack
    \/ WebShow

\* the program is stopped and started again while it handles no request and
\* runs no job: lines 54-57 build the strip anew, lines 148-150 read
\* ./times.txt, lines 152-155 start the thread and the server
Restart ==
    /\ webPc = "idle"
    /\ schedPc = "sleep"
    /\ restarts < MaxRestarts
    /\ restarts' = restarts + 1
    /\ data' = [i \in Pixels(numPixels) |-> 0]
    /\ unshown' = FALSE
    /\ jobs' = JobsAt(times_txt[1], times_txt[2])
    /\ jobsRun' = 0
    /\ UNCHANGED <<numPixels, now, times_txt, schedPc, job, weather, animation,
                   offI, webPc, on_time, off_time, webI, form>>
    /\ UNCHANGED <<dfVars, anVars, playVars, sunVars, imgVars, dispVars>>
    /\ UNCHANGED <<callVars, replayVars, blendVars>>

\* the web handler with these forms, and restarts
NextWeb ==
    \/ WebSubmitAny
    \/ WebWriteTimes
    \/ WebSchedule
    \/ WebBlack
    \/ WebShow
    \/ Restart

(***************************************************************************)
(* ws_stub.Color, PixelStrip.setPixelColor and led_animations.Frame,       *)
(* called one at a time                                                    *)
(***************************************************************************)
\* Python's int has no width.  A packed colour takes up to 32 bits and is
\* kept as the sequence of its bits, the lowest first
RECURSIVE ToBits(_, _)
ToBits(x, w) == IF w = 0 THEN <<>> ELSE <<x % 2>> \o ToBits(x \div 2, w - 1)

RECURSIVE FromBits(_)
FromBits(b) == IF b = <<>> THEN 0 ELSE Head(b) + 2 * FromBits(Tail(b))

Word(x) == ToBits(x, WordBits)

\* x << k
ShiftLeft(b, k) == [i \in 1 .. WordBits |-> IF i > k THEN b[i - k] ELSE 0]

\* x >> k
ShiftRight(b, k) ==
    [i \in 1 .. WordBits |-> IF i + k <= WordBits THEN b[i + k] ELSE 0]

\* x | y
BitOr(a, b) == [i \in 1 .. WordBits |-> IF a[i] = 1 \/ b[i] = 1 THEN 1 ELSE 0]

\* x & y
BitAnd(a, b) == [i \in 1 .. WordBits |-> IF a[i] = 1 /\ b[i] = 1 THEN 1 ELSE 0]

\* ws_stub.py lines 43-46
ColorRaisesAbove(red, green, blue, white) ==
    \/ red > 255
    \/ blue > 255
    \/ green > 255
    \/ white > 255

ColorRaises(red, green, blue, white) ==
    \/ ~(0 <= red /\ red <= 255)
    \/ ~(0 <= blue /\ blue <= 255)
    \/ ~(0 <= green /\ green <= 255)
    \/ ~(0 <= white /\ white <= 255)

\* ws_stub.py line 48
PackedColor(red, green, blue, white) ==
    BitOr(BitOr(BitOr(ShiftLeft(Word(white), 24), ShiftLeft(Word(red), 16)),
                ShiftLeft(Word(green), 8)),
          Word(blue))

\* the channels given to Color
Channels == {-1, 0, 1, 128, 255, 256}

\* Color(red, green, blue, white).  It reads nothing but its arguments and
\* changes nothing, so it is followed as the first call only
StripColor ==
    /\ call = "none"
    /\ \E red \in Channels, green \in Channels, blue \in Channels,
          white \in Channels :
         /\ args' = <<red, green, blue, white>>
         /\ IF ColorRaises(red, green, blue, white)
            THEN /\ raised' = "AssertionError"
                 /\ ret' = <<>>
            ELSE /\ raised' = "none"
                 /\ ret' = PackedColor(red, green, blue, white)
    /\ call' = "Color"
    /\ before' = data
    /\ events' = <<>>
    /\ UNCHANGED <<stripVars, frame_colors>>
    /\ UNCHANGED <<dfVars, anVars, playVars, sunVars, imgVars, dispVars, appVars>>
    /\ UNCHANGED <<replayVars, blendVars>>
    /\ UNCHANGED procVars

\* ws_stub.py line 75: self._data is a numpy array, and an index from -len
\* to len - 1 is one of its elements, a negative one counted from the end
IndexRaises(n, len) == n < -len \/ n >= len

IndexOf(n, len) == IF n < 0 THEN n + len ELSE n

\* the colours given to the strip
StripColors == {Color(255, 0, 0), Color(0, 0, 255)}

\* strip.setPixelColor(n, color), ws_stub.py lines 74-75
StripSetPixelColor ==
    /\ \E n \in (-numPixels - 1) .. (numPixels + 1), color \in StripColors :
         /\ args' = <<n, color>>
         /\ IF IndexRaises(n, numPixels)
            THEN /\ raised' = "IndexError"
                 /\ UNCHANGED data
            ELSE /\ raised' = "none"
                 /\ data' = [data EXCEPT ![IndexOf(n, numPixels)] = color]
    /\ call' = "setPixelColor"
    /\ ret' = <<>>
    /\ before' = data
    /\ events' = <<>>
    /\ UNCHANGED <<numPixels, now, frame_colors>>
    /\ UNCHANGED <<dfVars, anVars, playVars, sunVars, imgVars, dispVars, appVars>>
    /\ UNCHANGED <<replayVars, blendVars>>
    /\ unshown' = (unshown \/ raised' = "none")
    /\ UNCHANGED <<form, restarts>>

\* the lists of colours a Frame is built from, one element longer than the
\* strip at most
ColorLists(n) == UNION { [Pixels(k) -> StripColors] : k \in 1 .. (n + 1) }

\* Frame(strip, colors), led_animations.py lines 43-50: a list is kept as it
\* is, a single colour is repeated along the strip
StripFrame ==
    /\ \/ \E colors \in ColorLists(numPixels) :
            /\ args' = <<colors>>
            /\ frame_colors' = colors
       \/ \E color \in StripColors :
            /\ args' = <<color>>
            /\ frame_colors' = FrameOf(numPixels, color)
    /\ call' = "Frame"
    /\ raised' = "none"
    /\ ret' = <<>>
    /\ before' = data
    /\ events' = <<>>
    /\ UNCHANGED stripVars
    /\ UNCHANGED <<dfVars, anVars, playVars, sunVars, imgVars, dispVars, appVars>>
    /\ UNCHANGED <<replayVars, blendVars>>
    /\ UNCHANGED procVars

\* led_animations.py lines 53-55, from pass i on: the setPixelColor calls
RECURSIVE ShowLoop(_, _, _)
ShowLoop(colors, n, i) ==
    LET len == Cardinality(DOMAIN colors)
    IN IF i >= n THEN <<>>
       ELSE (IF i < len THEN << <<"setPixelColor", i, colors[i % len]>> >>
                        ELSE <<>>)
            \o ShowLoop(colors, n, i + 1)

\* led_animations.py lines 52-56: the strip calls of Frame.show
ShowEvents(colors, n) == ShowLoop(colors, n, 0) \o << <<"show">> >>

\* frame.show() on the frame built last
StripShow ==
    /\ frame_colors # <<>>
    /\ call' = "show"
    /\ args' = <<>>
    /\ raised' = "none"
    /\ ret' = <<>>
    /\ before' = data
    /\ events' = ShowEvents(frame_colors, numPixels)
    /\ data' = Show(frame_colors, data)
    /\ UNCHANGED <<numPixels, now, frame_colors>>
    /\ UNCHANGED <<dfVars, anVars, playVars, sunVars, imgVars, dispVars, appVars>>
    /\ UNCHANGED <<replayVars, blendVars>>
    /\ unshown' = FALSE
    /\ UNCHANGED <<form, restarts>>

NextStrip == StripColor \/ StripSetPixelColor \/ StripFrame \/ StripShow

(***************************************************************************)
(* led_animations.ColorWipe, TheatreChase, and iterating an animation      *)
(* again                                                                   *)
(***************************************************************************)
\* lines 151-158
ColorWipeNext ==
    /\ anKind = "ColorWipe"
    /\ anPc = "fetch"
    /\ IF frame_number >= numPixels
       THEN /\ anPc' = "done"
            /\ UNCHANGED <<frame_number, frame>>
       ELSE /\ frame' = [i \in Pixels(numPixels) |->
                           IF i < frame_number THEN anColor ELSE Black]
            /\ frame_number' = frame_number + 1
            /\ anPc' = "frame"
    /\ UNCHANGED <<stripVars, dfVars, sunVars, anKind, batch_size, steps, old_frame,
                   new_frame, current_frame, next_frame, remaining_pixels,
                   lerp_step, delta, anWrites, driver, delay, dt, playSleep,
                   shown>>
    /\ UNCHANGED <<imgVars, dispVars, appVars, callVars, replayVars, blendVars>>
    /\ UNCHANGED procVars

\* lines 171-178; line 175 is range(len(colors), 3)
TheatreChaseNext ==
    /\ anKind = "TheatreChase"
    /\ anPc = "fetch"
    /\ IF frame_number >= max_iterations
       THEN /\ anPc' = "done"
            /\ UNCHANGED <<frame_number, frame>>
       ELSE /\ frame' = [i \in Pixels(numPixels) |->
                           IF \E k \in numPixels .. 2 :
                                (k + frame_number) % numPixels = i
                           THEN anColor ELSE Black]
            /\ frame_number' = frame_number + 1
            /\ anPc' = "frame"
    /\ UNCHANGED <<stripVars, dfVars, sunVars, anKind, batch_size, steps, old_frame,
                   new_frame, current_frame, next_frame, remaining_pixels,
                   lerp_step, delta, anWrites, driver, delay, dt, playSleep,
                   shown>>
    /\ UNCHANGED <<imgVars, dispVars, appVars, callVars, replayVars, blendVars>>
    /\ UNCHANGED procVars

\* lines 64-66, called by a second for statement over the same object once
\* the first has ended: frame_number, the frames the pass that ended has
\* yielded, goes back to 0 and nothing else is reset
AnimIterAgain ==
    /\ anPc = "done"
    /\ Len(passFrames) + 1 < MaxPasses
    /\ passFrames' = Append(passFrames, frame_number)
    /\ frame_number' = 0
    /\ anPc' = "fetch"
    /\ UNCHANGED <<stripVars, dfVars, playVars, sunVars, anKind, batch_size, steps,
                   old_frame, new_frame, current_frame, next_frame,
                   remaining_pixels, lerp_step, delta, anWrites>>
    /\ UNCHANGED <<imgVars, dispVars, appVars, callVars, anColor, max_iterations,
                   blendVars>>
    /\ UNCHANGED procVars

NextReplay ==
    \/ AnimIter
    \/ AnimIterAgain
    \/ ColorWipeNext
    \/ TheatreChaseNext
    \/ LerpFadeNext
    \/ DitherFadeNext
    \/ IterBody

(***************************************************************************)
(* LightArray.blend_image_to_strip                                         *)
(***************************************************************************)
\* light_array.py lines 142-146: steps, by position in the loop
StepAt(k, rev) == IF rev THEN NumSteps - 1 - k ELSE k

\* light_array.py lines 150 and 153: int(round(c * (step / NUM_STEPS) ** 2.3)).
\* The power is irrational; its rounded products are held here for the
\* channel values 0 and 255 and for the first and the last steps
Dimmed(c, s) ==
    IF c = 0 \/ s <= 3 THEN 0
    ELSE CASE s = 255 -> 253
           [] s = 254 -> 250
           [] s = 253 -> 248

\* light_array.py lines 152-154: the packed colour of a row at a step
RowColor(row, s) == Color(Dimmed(row[1], s), Dimmed(row[2], s), Dimmed(row[3], s))

\* light_array.py lines 149-154: black everywhere, then the rows from the
\* last down to row 1, range(shape[0] - 1, 0, -1)
ColorArr(colors, idtable, n, s) ==
    [j \in Pixels(n) |->
       IF \E i \in DOMAIN colors : i >= 1 /\ idtable[i] = j
       THEN RowColor(colors[CHOOSE i \in DOMAIN colors : i >= 1 /\ idtable[i] = j], s)
       ELSE Color(0, 0, 0)]

\* one pass of the loop up to its call of dither_fade.  In light_array.py
\* that is lines 148-155: dither_fade(strip, color_arr, dither_time), where
\* color_arr, the list of all colours, is the argument new_color and
\* leds_to_switch is left out.  dither_fade is the one of ledstrip.py.  In
\* lightarray.py line 135 reads i before the loop of line 136 assigns it
BlendStep ==
    /\ blPc = "loop"
    /\ blStep < MaxBlendSteps
    /\ IF lightModule = "lightarray"
       THEN /\ blPc' = "UnboundLocalError"
            /\ UNCHANGED <<color_arr, dfVars>>
       ELSE /\ blPc' = "dither"
            /\ color_arr' = ColorArr(la.colors, ids, numPixels,
                                     StepAt(blStep, blReverse))
            /\ new_color' = color_arr'
            /\ dfPc' = "entry"
            /\ leds_to_switch' = Pixels(numPixels)
            /\ dfPending0' = Pixels(numPixels)
            /\ dither_time' = Rat(1000 * runtime, NumSteps)
            /\ dfWrites' = [i \in Pixels(numPixels) |-> 0]
            /\ dfFlushes' = 0
            /\ UNCHANGED <<start_time, num_leds, df_batch_size, dfSleep,
                           dfFinalSleep>>
    /\ UNCHANGED <<stripVars, anVars, playVars, sunVars, imgVars, dispVars,
                   appVars, callVars, replayVars>>
    /\ UNCHANGED <<blStep, ids, runtime, blReverse>>
    /\ UNCHANGED procVars

\* what self._data[n] = color does with a list (ws_stub.py line 75): numpy
\* refuses a sequence of several elements with ValueError; one of a single
\* element is stored as that element or refused, by the version of numpy
StoreOutcomes(color) ==
    IF Cardinality(DOMAIN color) = 1 THEN {"stored", "ValueError"}
                                     ELSE {"ValueError"}

\* ledstrip.py lines 83-88 in the call made by blend_image_to_strip: one
\* pass of the while loop, whose setPixelColor calls are given the list
BlendBatch ==
    /\ blPc = "dither"
    /\ dfPc = "loop"
    /\ leds_to_switch # {}
    /\ \E p \in PopBatches(leds_to_switch, df_batch_size),
          outcome \in StoreOutcomes(new_color) :
         IF outcome = "ValueError"
         THEN /\ blPc' = "ValueError"
              /\ dfPc' = "error"
              /\ leds_to_switch' = p.rest
              /\ UNCHANGED <<data, now, dfWrites, dfSleep, dfFlushes>>
         ELSE LET sleep == RDiv(dither_time, df_batch_size * num_leds)
              IN /\ leds_to_switch' = p.rest
                 /\ data' = [i \in DOMAIN data |->
                               IF i \in p.taken THEN new_color[0] ELSE data[i]]
                 /\ dfWrites' = [i \in DOMAIN dfWrites |->
                                   IF i \in p.taken THEN dfWrites[i] + 1
                                                    ELSE dfWrites[i]]
                 /\ dfSleep' = sleep
                 /\ now' = RAdd(now, sleep)
                 /\ dfFlushes' = dfFlushes + 1
                 /\ UNCHANGED <<blPc, dfPc>>
    /\ UNCHANGED <<numPixels, new_color, dither_time, start_time, num_leds,
                   df_batch_size, dfFinalSleep, dfPending0>>
    /\ UNCHANGED <<anVars, playVars, sunVars, imgVars, dispVars, appVars,
                   callVars, replayVars>>
    /\ UNCHANGED <<blStep, ids, color_arr, runtime, blReverse>>
    /\ unshown' = (unshown /\ blPc' = "ValueError")
    /\ UNCHANGED <<form, restarts>>

\* dither_fade has returned: the next pass of the loop of line 148
BlendAfter ==
    /\ blPc = "dither"
    /\ dfPc = "done"
    /\ blStep' = blStep + 1
    /\ blPc' = IF blStep + 1 = NumSteps THEN "done" ELSE "loop"
    /\ dfPc' = "idle"
    /\ UNCHANGED <<new_color, leds_to_switch, dither_time, start_time, num_leds,
                   df_batch_size, dfSleep, dfFlushes, dfFinalSleep, dfPending0,
                   dfWrites>>
    /\ UNCHANGED <<stripVars, anVars, playVars, sunVars, imgVars, dispVars,
                   appVars, callVars, replayVars>>
    /\ UNCHANGED <<ids, color_arr, runtime, blReverse>>
    /\ UNCHANGED procVars

NextBlend == BlendStep \/ DfEnter \/ BlendBatch \/ DfExit \/ BlendAfter

(***************************************************************************)
(* Initial states                                                          *)
(***************************************************************************)
\* sunrise_animation not called
SunIdle ==
    /\ sunPc = "idle"
    /\ step = 0
    /\ reverse = FALSE
    /\ total_time = 0
    /\ t_1 = <<0, 1>>
    /\ sunStart = <<0, 1>>
    /\ sunCost = 0

\* dither_fade not called
DfIdle ==
    /\ dfPc = "idle"
    /\ new_color = 0
    /\ leds_to_switch = {}
    /\ dither_time = <<0, 1>>
    /\ start_time = <<0, 1>>
    /\ num_leds = 0
    /\ df_batch_size = 0
    /\ dfSleep = <<0, 1>>
    /\ dfFlushes = 0
    /\ dfFinalSleep = <<0, 1>>
    /\ dfPending0 = {}
    /\ dfWrites = <<>>

\* no animation object
AnIdle ==
    /\ anKind = "none"
    /\ anPc = "idle"
    /\ frame_number = 0
    /\ batch_size = 0
    /\ steps = 0
    /\ old_frame = <<>>
    /\ new_frame = <<>>
    /\ current_frame = <<>>
    /\ next_frame = <<>>
    /\ remaining_pixels = {}
    /\ lerp_step = 0
    /\ delta = <<>>
    /\ anWrites = <<>>
    /\ driver = "iter"
    /\ frame = <<>>
    /\ delay = 0
    /\ dt = 0
    /\ playSleep = 0
    /\ shown = 0

\* no LightArray
ImgIdle ==
    /\ position_data = <<>>
    /\ image = [width |-> 0, height |-> 0, data |-> <<>>]
    /\ imPc = "idle"
    /\ regions = <<>>
    /\ ret_colors = <<>>

\* display_image not called
DispIdle ==
    /\ lightModule = "none"
    /\ light_pos = <<>>
    /\ files = <<>>
    /\ pkl = <<>>
    /\ dispPc = "idle"
    /\ image_filename = ""
    /\ la = NoLightArray
    /\ found = "none"
    /\ clusterings = 0

\* flask_time.py not started
AppIdle ==
    /\ jobs = <<>>
    /\ times_txt = <<>>
    /\ schedPc = "idle"
    /\ job = "none"
    /\ weather = "unset"
    /\ animation = "none"
    /\ offI = 0
    /\ jobsRun = 0
    /\ webPc = "idle"
    /\ on_time = 0
    /\ off_time = 0
    /\ webI = 0

\* no single call made
CallIdle ==
    /\ call = "none"
    /\ args = <<>>
    /\ raised = "none"
    /\ ret = <<>>
    /\ before = <<>>
    /\ frame_colors = <<>>
    /\ events = <<>>

\* no ColorWipe, no TheatreChase, no second iteration
ReplayIdle ==
    /\ anColor = 0
    /\ max_iterations = 0
    /\ passFrames = <<>>

\* blend_image_to_strip not called
BlendIdle ==
    /\ blPc = "idle"
    /\ blStep = 0
    /\ ids = <<>>
    /\ color_arr = <<>>
    /\ runtime = 0
    /\ blReverse = FALSE

\* no form submitted, no restart, and begin() has shown the zeroed strip
ProcIdle ==
    /\ form = <<>>
    /\ restarts = 0
    /\ unshown = FALSE

ExtIdle == CallIdle /\ ReplayIdle /\ BlendIdle /\ ProcIdle

\* a fresh strip of up to n pixels, ws_stub.py lines 62-65
FreshStrip(n) ==
    /\ numPixels \in 1 .. n
    /\ data = [i \in Pixels(numPixels) |-> 0]
    /\ now = <<0, 1>>

\* a call dither_fade(strip, colour, leds, dither_time=T) on a fresh strip
InitDitherFn ==
    /\ FreshStrip(MaxPixels)
    /\ AnIdle
    /\ SunIdle
    /\ ImgIdle
    /\ DispIdle
    /\ AppIdle
    /\ ExtIdle
    /\ dfPc = "entry"
    /\ new_color = White
    /\ leds_to_switch \in SUBSET Pixels(numPixels)
    /\ dither_time \in { RInt(t) : t \in 1 .. MaxDitherMs }
    /\ start_time = <<0, 1>>
    /\ num_leds = 0
    /\ df_batch_size = 0
    /\ dfSleep = <<0, 1>>
    /\ dfFlushes = 0
    /\ dfFinalSleep = <<0, 1>>
    /\ dfPending0 = leds_to_switch
    /\ dfWrites = [i \in Pixels(numPixels) |-> 0]

\* the loop that will consume the animation
InitDriver ==
    /\ driver \in {"iter", "play"}
    /\ delay \in IF driver = "play" THEN 1 .. MaxDelay ELSE {0}
    /\ frame = <<>>
    /\ dt = 0
    /\ playSleep = 0
    /\ shown = 0

\* DitherFade(strip, old_frame, new_frame, batch_size), lines 186-199
InitDitherFade ==
    /\ FreshStrip(MaxPixels)
    /\ DfIdle
    /\ SunIdle
    /\ ImgIdle
    /\ DispIdle
    /\ AppIdle
    /\ ExtIdle
    /\ InitDriver
    /\ anKind = "DitherFade"
    /\ anPc = "new"
    /\ frame_number = 0
    /\ batch_size \in 1 .. MaxBatch
    /\ steps = 0
    /\ old_frame \in { FrameOf(numPixels, c) : c \in {Black, White} }
    /\ new_frame \in { FrameOf(numPixels, c) : c \in {Black, White} }
    /\ current_frame = old_frame
    /\ next_frame = <<>>
    /\ remaining_pixels = Pixels(numPixels)
    /\ lerp_step = 0
    /\ delta = <<>>
    /\ anWrites = [i \in Pixels(numPixels) |-> 0]

\* LerpFade(strip, old_frame, new_frame, steps), lines 220-227
InitLerpFade ==
    /\ FreshStrip(MaxPixels)
    /\ DfIdle
    /\ SunIdle
    /\ ImgIdle
    /\ DispIdle
    /\ AppIdle
    /\ ExtIdle
    /\ InitDriver
    /\ anKind = "LerpFade"
    /\ anPc = "new"
    /\ frame_number = 0
    /\ batch_size = 0
    /\ steps \in 1 .. MaxSteps
    /\ old_frame \in { FrameOf(numPixels, c) : c \in {Black, White} }
    /\ new_frame \in { FrameOf(numPixels, c) : c \in {Black, White} }
    /\ current_frame = <<>>
    /\ next_frame = <<>>
    /\ remaining_pixels = {}
    /\ lerp_step = 0
    /\ delta = Delta(old_frame, new_frame, steps)
    /\ anWrites = [i \in Pixels(numPixels) |-> 0]

\* DitherLerpFade(strip, old_frame, new_frame, batch_size, steps), lines 245-261
InitDitherLerpFade ==
    /\ FreshStrip(MaxPixels)
    /\ DfIdle
    /\ SunIdle
    /\ ImgIdle
    /\ DispIdle
    /\ AppIdle
    /\ ExtIdle
    /\ InitDriver
    /\ anKind = "DitherLerpFade"
    /\ anPc = "new"
    /\ frame_number = 0
    /\ batch_size \in 1 .. MaxBatch
    /\ steps \in 1 .. MaxDitherLerpSteps
    /\ old_frame \in { FrameOf(numPixels, c) : c \in {Black, White} }
    /\ new_frame \in { FrameOf(numPixels, c) : c \in {Black, White} }
    /\ delta = Delta(old_frame, new_frame, steps)
    /\ remaining_pixels = Pixels(numPixels)
    /\ lerp_step = 1
    /\ current_frame = old_frame
    /\ next_frame = Lerp(old_frame, delta, 1)
    /\ anWrites = [i \in Pixels(numPixels) |-> 0]

InitAnim == InitDitherFade \/ InitLerpFade \/ InitDitherLerpFade

\* a call sunrise_animation(strip, total_time, reverse) on a fresh strip
InitSunrise ==
    /\ FreshStrip(MaxSunPixels)
    /\ DfIdle
    /\ AnIdle
    /\ ImgIdle
    /\ DispIdle
    /\ AppIdle
    /\ ExtIdle
    /\ sunPc = "loop"
    /\ step = 0
    /\ reverse \in BOOLEAN
    /\ total_time \in 1 .. MaxSunSeconds
    /\ t_1 = <<0, 1>>
    /\ sunStart = now
    /\ sunCost \in 0 .. MaxCost

\* position tables of distinct LEDs on a grid, no column all zero
PositionTables ==
    { pos \in UNION { [0 .. (n - 1) -> (0 .. MaxCoord) \X (0 .. MaxCoord)] :
                        n \in 1 .. MaxLeds } :
        /\ \A m, n \in DOMAIN pos : pos[m] = pos[n] => m = n
        /\ MaxOf(Column(pos, 1)) > 0
        /\ MaxOf(Column(pos, 2)) > 0 }

RedPixel == <<255, 0, 0>>

BluePixel == <<0, 0, 255>>

\* images of up to MaxSide by MaxSide pixels, each red or blue
Images ==
    UNION { { [width |-> wh[1], height |-> wh[2], data |-> d] :
                d \in [0 .. (wh[1] * wh[2] - 1) -> {RedPixel, BluePixel}] } :
            wh \in (1 .. MaxSide) \X (1 .. MaxSide) }

\* a LightArray over a position table, asked for the colours of an image
InitImage ==
    /\ numPixels = 0
    /\ data = <<>>
    /\ now = <<0, 1>>
    /\ DfIdle
    /\ AnIdle
    /\ SunIdle
    /\ DispIdle
    /\ AppIdle
    /\ ExtIdle
    /\ position_data \in PositionTables
    /\ image \in Images
    /\ imPc = "call"
    /\ regions = <<>>
    /\ ret_colors = <<>>

\* flask_time.py line 34
ImageFiles == {"sunrise.jpg"}

\* the images of the display_image specification
DispImages == { im \in Images : im.width * im.height <= MaxDispPixels }

\* a first call of display_image with ./pkl/ empty
InitDisplay ==
    /\ numPixels = 0
    /\ data = <<>>
    /\ now = <<0, 1>>
    /\ DfIdle
    /\ AnIdle
    /\ SunIdle
    /\ ImgIdle
    /\ AppIdle
    /\ ExtIdle
    /\ lightModule \in {"light_array", "lightarray"}
    /\ light_pos \in DispTables
    /\ files \in [ImageFiles -> DispImages]
    /\ pkl = [f \in ImageFiles |-> NoPickle]
    /\ dispPc = "idle"
    /\ image_filename = ""
    /\ la = NoLightArray
    /\ found = "none"
    /\ clusterings = 0

\* flask_time.py started: lines 54-57 and 145-155.  times.txt holds 07:00:00
\* and 07:20:00, ./pkl/ may hold the pickle of an earlier run
InitApp ==
    /\ FreshStrip(MaxAppPixels)
    /\ DfIdle
    /\ AnIdle
    /\ SunIdle
    /\ ImgIdle
    /\ ExtIdle
    /\ lightModule = "lightarray"
    /\ light_pos = <<<<1, 1>>>>
    /\ files = [f \in ImageFiles |->
                  [width |-> 1, height |-> 1, data |-> [i \in {0} |-> RedPixel]]]
    /\ pkl \in [ImageFiles ->
                  {NoPickle,
                   Pickled([kdtree |-> LightArr(<<<<1, 1>>>>), colors |-> <<>>])}]
    /\ dispPc = "idle"
    /\ image_filename = ""
    /\ la = NoLightArray
    /\ found = "none"
    /\ clusterings = 0
    /\ times_txt = <<Strftime(OnTime(7, 0)), Strftime(OffTime(OnTime(7, 0)))>>
    /\ jobs = JobsAt(times_txt[1], times_txt[2])
    /\ schedPc = "sleep"
    /\ job = "none"
    /\ weather = "unset"
    /\ animation = "none"
    /\ offI = 0
    /\ jobsRun = 0
    /\ webPc = "idle"
    /\ on_time = 0
    /\ off_time = 0
    /\ webI = 0

\* a fresh strip, ws_stub.py lines 62-65, and nothing called yet
InitStrip ==
    /\ FreshStrip(MaxStripPixels)
    /\ ProcIdle
    /\ DfIdle
    /\ AnIdle
    /\ SunIdle
    /\ ImgIdle
    /\ DispIdle
    /\ AppIdle
    /\ CallIdle
    /\ ReplayIdle
    /\ BlendIdle

\* ColorWipe(strip, color), lines 147-149, in a for statement
InitColorWipe ==
    /\ FreshStrip(MaxPixels)
    /\ ProcIdle
    /\ DfIdle
    /\ SunIdle
    /\ ImgIdle
    /\ DispIdle
    /\ AppIdle
    /\ CallIdle
    /\ driver = "iter"
    /\ delay = 0
    /\ frame = <<>>
    /\ dt = 0
    /\ playSleep = 0
    /\ shown = 0
    /\ anKind = "ColorWipe"
    /\ anPc = "new"
    /\ frame_number = 0
    /\ batch_size = 0
    /\ steps = 0
    /\ old_frame = <<>>
    /\ new_frame = <<>>
    /\ current_frame = <<>>
    /\ next_frame = <<>>
    /\ remaining_pixels = {}
    /\ lerp_step = 0
    /\ delta = <<>>
    /\ anWrites = <<>>
    /\ BlendIdle
    /\ passFrames = <<>>
    /\ anColor \in {White, Color(255, 0, 0)}
    /\ max_iterations = 0

\* TheatreChase(strip, color, max_iterations), lines 166-169, in a for
\* statement
InitTheatreChase ==
    /\ FreshStrip(MaxPixels)
    /\ ProcIdle
    /\ DfIdle
    /\ SunIdle
    /\ ImgIdle
    /\ DispIdle
    /\ AppIdle
    /\ CallIdle
    /\ driver = "iter"
    /\ delay = 0
    /\ frame = <<>>
    /\ dt = 0
    /\ playSleep = 0
    /\ shown = 0
    /\ anKind = "TheatreChase"
    /\ anPc = "new"
    /\ frame_number = 0
    /\ batch_size = 0
    /\ steps = 0
    /\ old_frame = <<>>
    /\ new_frame = <<>>
    /\ current_frame = <<>>
    /\ next_frame = <<>>
    /\ remaining_pixels = {}
    /\ lerp_step = 0
    /\ delta = <<>>
    /\ anWrites = <<>>
    /\ BlendIdle
    /\ passFrames = <<>>
    /\ anColor \in {White, Color(255, 0, 0)}
    /\ max_iterations \in 0 .. MaxIterations

\* an animation that ends, in a for statement which is run again
InitReplay ==
    \/ InitColorWipe
    \/ InitTheatreChase
    \/ InitLerpFade /\ driver = "iter"
    \/ InitDitherFade /\ driver = "iter"

\* sunrise_animation(strip, RUNTIME, reverse) on a fresh strip of ten pixels
\* or more, where sunrise_width is not 0
InitBand ==
    /\ numPixels \in 10 .. MaxBandPixels
    /\ data = [i \in Pixels(numPixels) |-> 0]
    /\ now = <<0, 1>>
    /\ DfIdle
    /\ AnIdle
    /\ ImgIdle
    /\ DispIdle
    /\ AppIdle
    /\ ExtIdle
    /\ sunPc = "loop"
    /\ step = 0
    /\ reverse \in BOOLEAN
    /\ total_time = Runtime
    /\ t_1 = <<0, 1>>
    /\ sunStart = now
    /\ sunCost = 0

\* the id tables: every LED of the strip once, in any order
IdTables(n) ==
    { t \in [Pixels(n) -> Pixels(n)] : \A i, j \in Pixels(n) : t[i] = t[j] => i = j }

\* la.blend_image_to_strip(strip, ids, runtime=RUNTIME, reverse) on a fresh
\* strip, with a LightArray of one red or blue row for each LED
InitBlend ==
    /\ FreshStrip(MaxBlendPixels)
    /\ ProcIdle
    /\ DfIdle
    /\ AnIdle
    /\ SunIdle
    /\ ImgIdle
    /\ AppIdle
    /\ CallIdle
    /\ ReplayIdle
    /\ lightModule \in {"light_array", "lightarray"}
    /\ light_pos = <<>>
    /\ files = <<>>
    /\ pkl = <<>>
    /\ dispPc = "blend"
    /\ image_filename = ""
    /\ la \in { [kdtree |-> <<>>, colors |-> c] :
                  c \in [Pixels(numPixels) -> {RedPixel, BluePixel}] }
    /\ found = "none"
    /\ clusterings = 0
    /\ blPc = "loop"
    /\ blStep = 0
    /\ ids \in IdTables(numPixels)
    /\ color_arr = <<>>
    /\ runtime = Runtime
    /\ blReverse \in BOOLEAN

(***************************************************************************)
(* Specifications                                                          *)
(***************************************************************************)
InitTransition == InitDitherFn \/ InitAnim

NextTransition == NextDitherFn \/ NextAnim

\* one transition: a dither_fade call, or an animation object and its loop
SpecTransition == InitTransition /\ [][NextTransition]_vars

\* one run of sunrise_animation
SpecSunrise == InitSunrise /\ [][NextSunrise]_vars

\* one call of image_to_colors
SpecImage == InitImage /\ [][NextImage]_vars

\* calls of display_image, between which the LED table and ./pkl/ may change
SpecDisplay == InitDisplay /\ [][NextDisplay]_vars

\* the scheduler thread of flask_time.py and its web handler
SpecApp == InitApp /\ [][NextApp]_vars

\* change_time with forms around midnight, and restarts of flask_time.py
SpecWeb == InitApp /\ [][NextWeb]_vars

\* sunrise_animation with a band: no dither_fade call raises in it
NextBand == SunStep \/ SunAfterDither \/ DfEnter \/ DfBatch \/ DfExit

\* one run of sunrise_animation on a strip with a sunrise band
SpecBand == InitBand /\ [][NextBand]_vars

\* the first passes of blend_image_to_strip
SpecBlend == InitBlend /\ [][NextBlend]_vars

\* an animation iterated, and iterated again
SpecReplay == InitReplay /\ [][NextReplay]_vars

\* single calls on one strip
SpecStrip == InitStrip /\ [][NextStrip]_vars

Init ==
    \/ InitTransition
    \/ InitSunrise
    \/ InitImage
    \/ InitDisplay
    \/ InitApp
    \/ InitStrip
    \/ InitReplay
    \/ InitBand
    \/ InitBlend

Next ==
    \/ NextTransition
    \/ NextSunrise
    \/ NextImage
    \/ NextDisplay
    \/ NextApp
    \/ NextWeb
    \/ NextStrip
    \/ NextReplay
    \/ NextBand
    \/ NextBlend

Spec == Init /\ [][Next]_vars

(***************************************************************************)
(* Claims                                                                  *)
(***************************************************************************)
\* C1: across one complete dithered-swap run (a DitherFade iterated until
\* StopIteration, or one dither_fade call that returned) every pending LED
\* index was overwritten with its target colour exactly once: no index is
\* ever written twice, no index outside the pending set is written, and at
\* the end none of the pending set is missing.
C1_PendingWrittenExactlyOnce ==
    /\ anKind = "DitherFade" =>
         /\ \A i \in Pixels(numPixels) : anWrites[i] <= 1
         /\ anPc = "done" =>
              \A i \in Pixels(numPixels) :
                  anWrites[i] = 1 /\ current_frame[i] = new_frame[i]
    /\ dfPc \in {"entry", "loop", "done", "error"} =>
         /\ \A i \in Pixels(numPixels) : dfWrites[i] <= 1
         /\ \A i \in Pixels(numPixels) \ dfPending0 : dfWrites[i] = 0
         /\ dfPc = "done" =>
              \A i \in dfPending0 : dfWrites[i] = 1 /\ data[i] = new_color

\* a dither_fade call over a proper part of the strip returned after
\* several batches
C1_Witness ==
    /\ dfPc = "done"
    /\ dfFlushes >= 2
    /\ Cardinality(dfPending0) >= 3
    /\ dfPending0 # Pixels(numPixels)

\* C2: iterating a DitherFade over a strip of N >= 1 pixels with
\* batch_size >= 1 yields exactly ceil(N / batch_size) frames, whatever the
\* two frames are (equal ones included), and StopIteration follows as soon
\* as the pending queue is empty.
C2_DitherFadeFrameCount ==
    anKind = "DitherFade" =>
        /\ frame_number <= Ceil(numPixels, batch_size)
        /\ anPc = "done" => frame_number = Ceil(numPixels, batch_size)
        /\ (anPc \in {"fetch", "frame"}
              /\ frame_number = Ceil(numPixels, batch_size)) =>
               remaining_pixels = {}

\* a DitherFade between two equal frames, whose last batch is a partial one,
\* was iterated until StopIteration
C2_Witness ==
    /\ anKind = "DitherFade"
    /\ anPc = "done"
    /\ old_frame = new_frame
    /\ numPixels = 4
    /\ batch_size = 3
    /\ frame_number = 2

\* C3 as claimed: a DitherLerpFade ends after `steps` outer iterations, each
\* exhausting one dither queue of ceil(N / batch_size) frames, so it never
\* yields more than steps * ceil(N / batch_size) frames.
C3_Orig ==
    anKind = "DitherLerpFade" =>
        frame_number <= steps * Ceil(numPixels, batch_size)

\* C4 as claimed: play never asks for a sleep of negative duration, and no
\* frame that takes longer than the delay makes the call abort.
C4_Orig ==
    driver = "play" => playSleep >= 0 /\ anPc # "aborted"

\* C5: a dither_fade call that returns has blocked for at least dither_time
\* since its entry, whatever rendering the batches cost.
C5_BlocksForBudget ==
    dfPc = "done" => RLe(dither_time, RSub(now, start_time))

\* the batches of a call ended before the budget and the rest was slept
C5_Witness ==
    /\ dfPc = "done"
    /\ dfFlushes >= 2
    /\ RLt(<<0, 1>>, dfFinalSleep)
    /\ RSub(now, start_time) = dither_time

\* C6 as claimed: sunrise_animation(strip, total_time=T) takes at least T
\* from its start to its return.
C6_Orig ==
    sunPc = "done" => RLe(RInt(1000 * total_time), RSub(now, sunStart))

\* C7 as claimed: in a dither_fade call that flushed F frames, the sleep
\* scheduled for each frame is dither_time / F.
C7_Orig ==
    (dfPc = "done" /\ dfFlushes > 0) => RMul(dfSleep, dfFlushes) = dither_time

\* C8 as claimed: for a dither_time of at least one 5 ms unit the batch size
\* is computed without a division by zero and 1 <= batch_size <= led_count.
C8_Orig ==
    (dfPc \in {"loop", "done", "error"}
       /\ RLe(RInt(MinUpdateMs), dither_time)) =>
        /\ dfPc # "error"
        /\ 1 <= df_batch_size
        /\ df_batch_size <= numPixels

\* C9 as claimed: the batch size dither_fade uses is
\* ceil(led_count / max(1, round(dither_time / 0.005))).
C9_Orig ==
    dfPc \in {"loop", "done"} =>
        df_batch_size = Ceil(numPixels, Max(1, Round(RDiv(dither_time, MinUpdateMs))))

\* C10 as claimed: in a LerpFade from an all-black to an all-white frame over
\* steps = 10, the frame of step k has every channel of every pixel equal to
\* round(255 * k / 10).
C10_Orig ==
    (/\ anKind = "LerpFade"
     /\ anPc = "frame"
     /\ steps = 10
     /\ old_frame = FrameOf(numPixels, Black)
     /\ new_frame = FrameOf(numPixels, White)) =>
        LET k == frame_number - 1
            expected == Round(Rat(255 * k, 10))
        IN \A i \in Pixels(numPixels) :
               /\ Red(frame[i]) = expected
               /\ Green(frame[i]) = expected
               /\ Blue(frame[i]) = expected

\* C11 as claimed: a frame handed out by DitherFade.__next__ or
\* DitherLerpFade.__next__ is a snapshot: a later __next__ call leaves the
\* colours of the frame returned before it unchanged.  (frame holds the
\* colours the last returned frame had when it was returned; while that
\* object is still the one in current_frame, its colours are current_frame.)
C11_Orig ==
    [][(/\ anKind \in {"DitherFade", "DitherLerpFade"}
        /\ anPc = "fetch"
        /\ anPc' = "frame"
        /\ frame # <<>>
        /\ CurrentFrameObject' = CurrentFrameObject)
          => current_frame' = frame]_vars

\* the samples of the image pixels assigned to LED n: pixel (x, y) is
\* assigned to the LED nearest (x / W, y / H), which is reg[x * H + y], and
\* its colour is sample y * W + x
AssignedSamples(reg, n, W, H) ==
    { PositionPixel(i, H)[2] * W + PositionPixel(i, H)[1] : i \in InRegion(reg, n) }

\* v is the fraction m rounded down or up
WithinRounding(v, m) ==
    /\ RLt(RSub(RInt(v), m), RInt(1))
    /\ RLt(RSub(m, RInt(v)), RInt(1))

\* C12 as claimed: in the array image_to_colors returns, every LED that was
\* assigned at least one image pixel holds, channel by channel, the mean of
\* the colours of exactly its assigned pixels (whichever way the fraction is
\* rounded); so for a solid-colour image every claimed LED, the lowest and
\* the highest one included, holds that colour.
C12_Orig ==
    imPc = "done" =>
        \A n \in { regions[i] : i \in DOMAIN regions } :
            LET S == AssignedSamples(regions, n, image.width, image.height)
            IN \A c \in 1 .. 3 :
                   WithinRounding(ret_colors[n][c], Centre(image.data, S)[c])

\* four LEDs at the corners of the unit square
UnitSquareCorners(pos) ==
    /\ DOMAIN pos = 0 .. 3
    /\ \A n \in DOMAIN pos, k \in 1 .. 2 :
           pos[n][k] \in {0, MaxOf(Column(pos, k))}

\* a 2 x 2 image with a red top row and a blue bottom row
RedOverBlue(im) ==
    /\ im.width = 2
    /\ im.height = 2
    /\ \A i \in 0 .. 3 :
           im.data[i] = IF SamplePixel(i, 2)[2] = 0 THEN RedPixel ELSE BluePixel

\* C13 as claimed: the i-th position queried and the i-th colour sample
\* belong to the same image pixel, whatever the width and height; and four
\* LEDs at the corners of the unit square, given a 2 x 2 image with a red
\* top row and a blue bottom row, come out red for the two top LEDs and
\* blue for the two bottom ones.
C13_Orig ==
    imPc \in {"done", "ValueError"} =>
        /\ \A i \in DOMAIN regions :
               PositionPixel(i, image.height) = SamplePixel(i, image.width)
        /\ (UnitSquareCorners(position_data) /\ RedOverBlue(image)) =>
               /\ imPc = "done"
               /\ \A n \in DOMAIN position_data :
                      ret_colors[n] = IF position_data[n][2] = 0 THEN RedPixel
                                                                ELSE BluePixel

\* C14 as claimed: when some LED of the table was assigned no pixel, the
\* call still returns, and every such LED is black in the result.
C14_Orig ==
    (/\ imPc \in {"done", "ValueError"}
     /\ \E n \in DOMAIN position_data : InRegion(regions, n) = {}) =>
        /\ imPc = "done"
        /\ \A n \in DOMAIN position_data :
               InRegion(regions, n) = {} => ret_colors[n] = <<0, 0, 0>>

\* C15 as claimed: each channel of the colour computed for a region is the
\* mean of the region's samples rounded to the nearest integer, and lies in
\* 0 .. 255.
C15_Orig ==
    imPc = "done" =>
        \A n \in LoopRegions(regions), c \in 1 .. 3 :
            /\ ret_colors[n][c] = Round(Centre(image.data, InRegion(regions, n))[c])
            /\ ret_colors[n][c] \in 0 .. 255

\* C16 as claimed: a call of display_image that found a cache entry for the
\* image runs no clustering (image_to_colors), neither before nor during the
\* animation; clustering happens on a miss only.
C16_Orig ==
    found = "entry" => clusterings = 0

\* C17 as claimed: when the cache entry exists but cannot be deserialised,
\* display_image does not fail: it goes on as after a miss, with a LightArray
\* built anew, to the animation.
C17_Orig ==
    found = "corrupt" =>
        /\ dispPc \in {"blend", "animation"}
        /\ la # NoLightArray

\* C18 as claimed: whatever calls and edits of the LED table came before,
\* the colours display_image takes from a cache entry are those a
\* recomputation gives for the image and the table as they are now.
C18_Orig ==
    (/\ lightModule = "light_array"
     /\ found = "entry"
     /\ dispPc = "blend") =>
        \E out \in ImageToColors(LightArr(light_pos), files[image_filename]) :
            /\ out.status = "done"
            /\ out.colors = la.colors

\* C19: when get_weather fails (None) or returns a condition with no entry
\* in WEATHER_ANIMATIONS, turn_lights_on and turn_lights_off select
\* sunrise_animation and their call of it with the strip, the runtime and
\* reverse goes through: the job does not end in an exception.
C19_Orig ==
    (/\ job \in {"on", "off"}
     /\ weather \in {"None", "Mist"}
     /\ schedPc # "dispatch")
      => (animation = "sunrise_animation" /\ schedPc # "error")

\* the scheduled job has set a pixel of the strip
ScheduledHasWritten ==
    \/ schedPc = "black"
    \/ sunPc = "done"
    \/ step > 0
    \/ sunPc = "dither" /\ dfFlushes > 0

\* the scheduled job has a pixel still to set: a step of sunrise_animation
\* to come or a batch of dither_fade to come, the closing loop of
\* led_animations.py lines 347-349, or the loop of flask_time.py lines 97-98
ScheduledWillWrite ==
    \/ /\ schedPc = "animation"
       /\ \/ sunPc = "loop"
          \/ /\ sunPc = "dither"
             /\ (leds_to_switch # {} \/ step + 1 < SunriseSteps \/ job = "off")
          \/ sunPc = "done" /\ job = "off"
    \/ schedPc = "black" /\ offI < numPixels

\* the scheduler thread is between the first and the last pixel write of
\* turn_lights_on or turn_lights_off
ScheduledMidWrite ==
    /\ schedPc \in {"animation", "black"}
    /\ animation = "sunrise_animation"
    /\ ScheduledHasWritten
    /\ ScheduledWillWrite

\* C20: change_time never sets a pixel (lines 130-131) and never flushes the
\* strip (line 132) while the scheduler thread is between the first and the
\* last pixel write of a scheduled animation.
C20_Orig ==
    [][(webPc = "black" /\ (webI' = webI + 1 \/ webPc' = "idle"))
         => ~ScheduledMidWrite]_vars

\* C21: setPixelColor(n, colour) with n outside [0, N), negative n included,
\* raises IndexError and leaves every pixel of the strip as it was.
C21_Orig ==
    (call = "setPixelColor" /\ args[1] \notin Pixels(numPixels))
      => (raised = "IndexError" /\ data = before)

\* the bits 8k .. 8k + 7 of a packed colour, as a number
Channel8(word, k) == FromBits(BitAnd(ShiftRight(word, 8 * k), Word(255)))

\* C22: Color(red, green, blue, white) returns a value exactly when the four
\* channels are in [0, 255]; the value has blue in bits 0-7, green in bits
\* 8-15, red in bits 16-23 and white in bits 24-31, each channel is read back
\* from it by shift and mask, and without white it is the 24-bit colour
\* red * 65536 + green * 256 + blue.  With a channel out of range the call
\* raises and returns nothing.
C22_ColorRoundTrip ==
    call = "Color" =>
        LET red == args[1]
            green == args[2]
            blue == args[3]
            white == args[4]
            inRange == \A k \in 1 .. 4 : args[k] \in 0 .. 255
        IN /\ (raised = "none") <=> inRange
           /\ inRange =>
                /\ ret = ToBits(blue, 8) \o ToBits(green, 8) \o ToBits(red, 8)
                           \o ToBits(white, 8)
                /\ Channel8(ret, 0) = blue
                /\ Channel8(ret, 1) = green
                /\ Channel8(ret, 2) = red
                /\ Channel8(ret, 3) = white
                /\ white = 0 => FromBits(ret) = Color(red, green, blue)
           /\ ~inRange => (raised = "AssertionError" /\ ret = <<>>)

\* a colour with every channel set, white at its largest
C22_Witness ==
    /\ call = "Color"
    /\ args = <<255, 128, 1, 255>>
    /\ raised = "none"
    /\ Channel8(ret, 3) = 255

\* the indices Frame.show gave to setPixelColor
ShowWritten == { events[k][2] : k \in { k \in DOMAIN events :
                                            events[k][1] = "setPixelColor" } }

\* C24: Frame.show writes every index of the strip when the frame has fewer
\* colours than the strip has pixels (the colours are padded), writes the
\* first N colours when it has more, and calls strip.show once, after its
\* last setPixelColor.
C24_Orig ==
    call = "show" =>
        /\ ShowWritten = Pixels(numPixels)
        /\ \A k \in DOMAIN events :
             events[k][1] = "setPixelColor" =>
                 /\ k < Len(events)
                 /\ events[k][2] = k - 1
                 /\ Cardinality(DOMAIN frame_colors) >= numPixels =>
                      events[k][3] = frame_colors[k - 1]
        /\ events[Len(events)] = <<"show">>
        /\ Cardinality({ k \in DOMAIN events : events[k][1] = "show" }) = 1

\* C23: a second for statement over the same animation object yields as
\* many frames as the first did, for ColorWipe, TheatreChase, LerpFade and
\* DitherFade.
C23_Orig ==
    (anPc = "done" /\ passFrames # <<>>)
      => frame_number = passFrames[Len(passFrames)]

\* C29: DitherFade leaves the colours of the old_frame and of the new_frame
\* it was given as they are, in every __next__ call.
C29_FramesUntouched ==
    [][anKind = "DitherFade" => (old_frame' = old_frame /\ new_frame' = new_frame)]_vars

\* a DitherFade between two different frames has run to its end: what it
\* holds has become the new frame, what it was given is as it was
C29_Witness ==
    /\ anKind = "DitherFade"
    /\ anPc = "done"
    /\ frame_number >= 2
    /\ old_frame = FrameOf(numPixels, Black)
    /\ new_frame = FrameOf(numPixels, White)
    /\ current_frame = new_frame

\* C25: in every step of sunrise_animation, forward and reverse, the band
\* range(sunrise_start, sunrise_end) the step has written lies within the
\* strip: no setPixelColor call was given an index outside [0, N), and none
\* raised IndexError.
C25_Orig ==
    /\ sunPc # "error"
    /\ sunPc = "dither" =>
         SunriseBand(numPixels, Frac(step, reverse)) \subseteq Pixels(numPixels)

\* C26: blend_image_to_strip raises nothing: every setPixelColor call of its
\* dither_fade is given one packed colour; and when a brightness step ends,
\* every LED of the id table, ids[0] included, shows the packed colour of
\* its own row of the colour array at that step.
C26_Orig ==
    /\ blPc \notin {"ValueError", "UnboundLocalError"}
    /\ (blPc = "dither" /\ dfPc = "done") =>
         \A k \in DOMAIN ids :
             data[ids[k]] = RowColor(la.colors[k], StepAt(blStep, blReverse))

\* C27: whenever change_time has returned from a valid form, schedule.jobs
\* holds exactly two jobs, turn_lights_on at the hours and minutes of the form
\* submitted last and turn_lights_off RUNTIME later, on the next day's clock
\* when that passes midnight; times.txt holds the text of those two times; and
\* the two jobs a restart reads from times.txt are the same two jobs.  This
\* holds after every number of submissions and after a restart.
C27_ScheduleAndFile ==
    (webPc = "idle" /\ form # <<>>) =>
        LET on == 3600 * form[1] + 60 * form[2]
            off == IF on + Runtime >= DaySeconds THEN on + Runtime - DaySeconds
                                                 ELSE on + Runtime
            offHour == off \div 3600
            offMinute == (off % 3600) \div 60
        IN /\ jobs = <<[fn |-> "on", at |-> on], [fn |-> "off", at |-> off]>>
           /\ times_txt = <<
                  <<form[1] \div 10, form[1] % 10, form[2] \div 10,
                    form[2] % 10, 0, 0>>,
                  <<offHour \div 10, offHour % 10, offMinute \div 10,
                    offMinute % 10, 0, 0>> >>
           /\ JobsAt(times_txt[1], times_txt[2]) = jobs

\* 23:59 was submitted, the handler returned, the program was started again:
\* the off job is at 00:19:00
C27_Witness ==
    /\ webPc = "idle"
    /\ form = <<23, 59>>
    /\ restarts = 1
    /\ Len(jobs) = 2
    /\ jobs[2] = [fn |-> "off", at |-> 1140]
    /\ times_txt[2] = <<0, 0, 1, 9, 0, 0>>

\* C28: every step in which turn_lights_off returns leaves every pixel of the
\* strip black with no pixel set since the last show(), whatever get_weather
\* gave and whatever the web handler did meanwhile.
C28_OffLeavesDark ==
    [][(job = "off" /\ job' = "none") =>
           /\ \A i \in Pixels(numPixels) : data'[i] = Color(0, 0, 0)
           /\ ~unshown']_vars

\* turn_lights_off has run the reversed sunrise for a weather without an
\* entry and has returned
C28_Witness ==
    /\ jobsRun = 1
    /\ job = "none"
    /\ schedPc = "sleep"
    /\ weather = "Mist"
    /\ animation = "sunrise_animation"
    /\ reverse
    /\ sunPc = "done"
    /\ offI = numPixels
    /\ \A i \in Pixels(numPixels) : data[i] = 0
    /\ ~unshown

=============================================================================
